---- MODULE Spec2Model ----
(***************************************************************************)
(* marsbotgo: duplicate-image ("mars") counting for group chats.           *)
(*                                                                         *)
(* The model covers the persistent store (tables mars_info and             *)
(* mars_group_stat of sql/schema_mars.sql, the statements of               *)
(* sql/query_mars.sql) and the handlers of main.go that read and write it. *)
(* recordMars runs in a database/sql transaction on SQLite in WAL mode     *)
(* (applyPragmas): BeginTx(ctx, nil) is a deferred BEGIN, the first SELECT *)
(* takes the read snapshot, the first write statement takes the single     *)
(* write lock and fails with SQLITE_BUSY when another connection holds it  *)
(* or when the snapshot is no longer the newest one.  Handlers run in      *)
(* their own goroutines, so the steps of several recordMars calls          *)
(* interleave.                                                             *)
(***************************************************************************)
EXTENDS Integers, Sequences, FiniteSets, TLC

(***************************************************************************)
(* Bounds of the model.                                                    *)
(***************************************************************************)
NumProcs == 2      \* goroutines that run recordMars concurrently
MaxOps == 4        \* recordMars calls and whitelist statements started in one behaviour
MaxNear == 11      \* distinct near fingerprints stored for the similarity query
MaxVaried == 2     \* bytes of a buffer that vary freely in the distance function's inputs
MaxCalls == 2      \* calls of the hash function on one image
MaxMsgs == 3       \* photo messages received in one behaviour
MaxExports == 4    \* export requests received in one behaviour

(***************************************************************************)
(* Program constants.                                                      *)
(***************************************************************************)
similarHDThreshold == 6
mediaGroupLimit == 10
listLimit == 10
dhashLen == 8

Procs == 1..NumProcs
Groups == {1, 2}
MsgIds == {100, 101}

Min(a, b) == IF a < b THEN a ELSE b
Max(a, b) == IF a > b THEN a ELSE b

(***************************************************************************)
(* Fingerprints are 8-byte sequences (minicv.DHashBytes returns [8]byte).  *)
(***************************************************************************)
MkDhash(b1, b2) == [j \in 1..dhashLen |-> IF j = 1 THEN b1 ELSE IF j = 2 THEN b2 ELSE 0]

H == MkDhash(0, 0)
Dhashes == {H, MkDhash(1, 0)}

Keys == {<<1, H>>, <<1, MkDhash(1, 0)>>, <<2, H>>}

(***************************************************************************)
(* helpers.go hammingDistance: error on a length mismatch, otherwise the   *)
(* sum over the bytes of bits.OnesCount8(a[i] ^ b[i]).                     *)
(***************************************************************************)
RECURSIVE OnesCount8(_)
OnesCount8(b) == IF b = 0 THEN 0 ELSE (b % 2) + OnesCount8(b \div 2)

\* bitwise or instead of exclusive or
RECURSIVE Xor8_Or(_, _)
Xor8_Or(a, b) ==
    IF a = 0 /\ b = 0 THEN 0
    ELSE (IF (a % 2) + (b % 2) > 0 THEN 1 ELSE 0) + 2 * Xor8_Or(a \div 2, b \div 2)

RECURSIVE Xor8(_, _)
Xor8(a, b) ==
    IF a = 0 /\ b = 0 THEN 0
    ELSE (((a % 2) + (b % 2)) % 2) + 2 * Xor8(a \div 2, b \div 2)

RECURSIVE SumDist(_, _, _)
SumDist(a, b, i) ==
    IF i > Len(a) THEN 0
    ELSE OnesCount8(Xor8(a[i], b[i])) + SumDist(a, b, i + 1)

hammingDistance(a, b) ==
    IF Len(a) # Len(b) THEN [err |-> TRUE, dist |-> 0]
    ELSE [err |-> FALSE, dist |-> SumDist(a, b, 1)]

VARIABLES
    mars_info,        \* table mars_info: (group_id, pic_dhash) -> row
    mars_group_stat,  \* table mars_group_stat: group_id -> image_count
    writer,           \* the recordMars call holding SQLite's write lock, 0 if none
    txInfo,           \* the writer's uncommitted view of mars_info
    txStat,           \* the writer's uncommitted view of mars_group_stat
    pc,               \* position of each recordMars call
    call,             \* arguments and locals of each recordMars call
    ret,              \* the call of recordMars that returned in the last step, and its result
    nOps,             \* recordMars calls and whitelist statements started so far
    reported,         \* history: bag of <<key, PrevCount>> of committed calls
    committed,        \* history: <<group, dhash, msg>> of committed calls
    items,            \* the last find-similar request and the rows it listed
    arg,              \* the arguments of the pure function under study
    out,              \* its result, NoOut before the call
    fuid_to_dhash,    \* table fuid_to_dhash: file unique id -> dhash
    mediaGroups,      \* App.mediaGroups: media group id -> buffered messages
    mediaMu,          \* App.mediaMu: the flush holding it, 0 when free
    timers,           \* time.AfterFunc timers armed and not yet fired, per media group id
    flush,            \* the flushMediaGroup goroutines
    nMsgs,            \* photo messages received so far
    nRuns,            \* flushMediaGroup calls started so far
    sent,             \* history: the SendMessage calls, by flush
    handed,           \* history: how many flushes took each message, by message id
    dropped,          \* history: the ids of the messages enqueueMediaGroup dropped
    seen,             \* what a photo handler did with a message in the last step
    NoBackup,         \* config.NoBackup
    backupStopCh,     \* the package variable backupStopCh: 0 for nil, else a channel
    backupPc,         \* position of each goroutine calling StartBackupThread
    backupCalls,      \* calls of StartBackupThread made so far, by goroutine
    backupThreads,    \* backup goroutines started so far
    group_user_in_whitelist, \* table group_user_in_whitelist: set of <<group_id, user_id>>
    exporting,        \* App.exporting: chat id -> exportState, under App.exportMu
    exportTimers,     \* cooldown timers armed and not yet fired, per chat id
    exportPc,         \* position and chat of each goroutine running handleExportData
    exportRet,        \* what a handleExportData call returned in the last step
    nExports          \* export requests received so far

storeVars == <<mars_info, mars_group_stat, writer, txInfo, txStat, pc, call, ret,
               nOps, reported, committed, items>>

fnVars == <<arg, out>>

mediaVars == <<fuid_to_dhash, mediaGroups, mediaMu, timers, flush, nMsgs, nRuns, sent,
               handed, dropped, seen>>

backupVars == <<NoBackup, backupStopCh, backupPc, backupCalls, backupThreads>>

chatVars == <<group_user_in_whitelist, exporting, exportTimers, exportPc, exportRet, nExports>>

vars == <<storeVars, fnVars, mediaVars, backupVars, chatVars>>

NoArg == <<>>
NoOut == <<>>

\* no pure function is under study
FnIdle == arg = NoArg /\ out = NoOut

\* the goroutines that call StartBackupThread
Callers == 1..3

\* StartBackupThread has not been called, and backups are switched off
BackupIdle ==
    /\ NoBackup = TRUE
    /\ backupStopCh = 0
    /\ backupPc = [c \in Callers |-> "idle"]
    /\ backupCalls = [c \in Callers |-> 0]
    /\ backupThreads = 0

\* the goroutines that run handleExportData
Exporters == 1..2

\* no export request is being handled
NoExport == [pc |-> "idle", chat |-> 0]
NoExportRet == [proc |-> 0, chat |-> 0, result |-> ""]

\* no user is on a whitelist and no export has been requested
ChatIdle ==
    /\ group_user_in_whitelist = {}
    /\ exporting = [g \in {} |-> 0]
    /\ exportTimers = [g \in Groups |-> 0]
    /\ exportPc = [e \in Exporters |-> NoExport]
    /\ exportRet = NoExportRet
    /\ nExports = 0

(***************************************************************************)
(* Tables.  A table is a function from the primary keys of its rows; a key *)
(* outside the domain is an absent row (sql.ErrNoRows).                    *)
(***************************************************************************)
EmptyTable == [k \in {} |-> 0]

Put(t, k, v) == [x \in (DOMAIN t) \cup {k} |-> IF x = k THEN v ELSE t[x]]

ZeroInfo == [count |-> 0, last_msg_id |-> 0, in_whitelist |-> 0]

\* main.go:373: the goroutines of time.AfterFunc that run flushMediaGroup;
\* two of them, so that two flush runs can overlap
Flushers == {1, 2}
MediaGroupIds == {"album"}

\* a flushMediaGroup goroutine that is not running
NoFlush == [pc |-> "idle", groupID |-> "", run |-> 0, msgs |-> <<>>, i |-> 0,
            unique |-> EmptyTable, failed |-> {}]

\* no photo message received yet
MediaIdle ==
    /\ fuid_to_dhash = EmptyTable
    /\ mediaGroups = EmptyTable
    /\ mediaMu = 0
    /\ timers = [id \in MediaGroupIds |-> 0]
    /\ flush = [w \in Flushers |-> NoFlush]
    /\ nMsgs = 0
    /\ nRuns = 0
    /\ sent = {}
    /\ handed = EmptyTable
    /\ dropped = {}
    /\ seen = [run |-> 0, msg |-> [MessageId |-> 0, MediaGroupId |-> "", Photo |-> <<>>],
               dhash |-> <<>>, res |-> [err |-> "", Skipped |-> FALSE, PrevCount |-> 0,
                                        PrevLastMsgID |-> 0, Info |-> ZeroInfo]]

\* the lookup with "WHERE group_id = ?" alone: some row of the group
GetMarsInfo_AnyDhash(t, g, d) ==
    IF \E k \in DOMAIN t : k[1] = g
    THEN [found |-> TRUE, info |-> t[CHOOSE k \in DOMAIN t : k[1] = g]]
    ELSE [found |-> FALSE, info |-> ZeroInfo]

\* query_mars.sql GetMarsInfo :one
GetMarsInfo(t, g, d) ==
    IF <<g, d>> \in DOMAIN t
    THEN [found |-> TRUE, info |-> t[<<g, d>>]]
    ELSE [found |-> FALSE, info |-> ZeroInfo]

\* the upsert with "count = excluded.count" in place of "count = count + 1"
IncrementMarsInfo_Excluded(t, g, d, m) ==
    Put(t, <<g, d>>, [count |-> 1, last_msg_id |-> m,
                      in_whitelist |-> IF <<g, d>> \in DOMAIN t
                                       THEN t[<<g, d>>].in_whitelist ELSE 0])

\* query_mars.sql IncrementMarsInfo :one (the table after the statement; the
\* RETURNING row is the row of the key in that table)
IncrementMarsInfo(t, g, d, m) ==
    IF <<g, d>> \in DOMAIN t
    THEN [t EXCEPT ![<<g, d>>] = [@ EXCEPT !.count = @ + 1, !.last_msg_id = m]]
    ELSE Put(t, <<g, d>>, [count |-> 1, last_msg_id |-> m, in_whitelist |-> 0])

\* INSERT OR REPLACE in place of the upsert: the row is written anew
SetMarsWhitelist_Replace(t, g, d, flag) ==
    Put(t, <<g, d>>, [count |-> 0, last_msg_id |-> 0, in_whitelist |-> flag])

\* query_mars.sql SetMarsWhitelist :exec
SetMarsWhitelist(t, g, d, flag) ==
    IF <<g, d>> \in DOMAIN t
    THEN [t EXCEPT ![<<g, d>>] = [@ EXCEPT !.in_whitelist = flag]]
    ELSE Put(t, <<g, d>>, [count |-> 0, last_msg_id |-> 0, in_whitelist |-> flag])

\* the upsert with "image_count = excluded.image_count" in place of "image_count + 1"
IncrementGroupStat_Excluded(s, g) == Put(s, g, 1)

\* query_mars.sql IncrementGroupStat :exec
IncrementGroupStat(s, g) ==
    IF g \in DOMAIN s THEN [s EXCEPT ![g] = @ + 1] ELSE Put(s, g, 1)

\* query_mars.sql GetGroupMarsCount :one, as handleBotStat reads it (0 on ErrNoRows)
GetGroupMarsCount(s, g) == IF g \in DOMAIN s THEN s[g] ELSE 0

(***************************************************************************)
(* recordMars                                                              *)
(***************************************************************************)
NoCall == [groupID |-> 0, msgID |-> 0, dhash |-> <<>>, found |-> FALSE,
           prevCount |-> 0, prevLastMsgID |-> 0, stale |-> FALSE]

\* marsResult and the error of recordMars: err is "" for a nil error, otherwise
\* it names the storage step whose error recordMars returns
NoResult == [err |-> "", Skipped |-> FALSE, PrevCount |-> 0,
             PrevLastMsgID |-> 0, Info |-> ZeroInfo]
ErrResult(step) == [NoResult EXCEPT !.err = step]

NoRet == [proc |-> 0, groupID |-> 0, msgID |-> 0, dhash |-> <<>>, res |-> NoResult]

Returned(p, c, r) ==
    [proc |-> p, groupID |-> c.groupID, msgID |-> c.msgID, dhash |-> c.dhash, res |-> r]

KeyOf(p) == <<call[p].groupID, call[p].dhash>>

\* the skip test without the replay guard, and without the whitelist test
skipSighting_WhitelistOnly(info, msgID) == info.in_whitelist # 0
skipSighting_MsgOnly(info, msgID) == info.last_msg_id = msgID

\* main.go:515  info.LastMsgID == msgID || info.InWhitelist != 0
skipSighting(info, msgID) == info.last_msg_id = msgID \/ info.in_whitelist # 0

\* the group aggregate incremented on every sighting
needGroupStat_Always(prevCount) == TRUE

\* main.go:529  if prevCount == 0
needGroupStat(prevCount) == prevCount = 0

\* statements run outside the transaction: a stale read does not stop the write
writeLockBusy_NoSnapshot(p) == writer # 0

\* SQLite WAL, deferred transaction: the first write statement of the
\* transaction begun at main.go:503 gets the write lock only if no other
\* connection holds it and the read snapshot is still the newest.
writeLockBusy(p) == writer # 0 \/ call[p].stale

\* a commit that leaves the other transactions' snapshots usable
AfterWrite_NoStale(p) == [q \in Procs |-> IF q = p THEN NoCall ELSE call[q]]

\* a committed write makes the read snapshot of every other open transaction
\* stale; the call p that made it has returned
AfterWrite(p) ==
    [q \in Procs |-> IF q = p THEN NoCall
                     ELSE IF pc[q] = "inc" THEN [call[q] EXCEPT !.stale = TRUE]
                     ELSE call[q]]

\* tx.Commit() called where tx.Rollback() is meant
Rollback_Commits(p) ==
    /\ writer' = IF writer = p THEN 0 ELSE writer
    /\ txInfo' = IF writer = p THEN EmptyTable ELSE txInfo
    /\ txStat' = IF writer = p THEN EmptyTable ELSE txStat
    /\ mars_info' = IF writer = p THEN txInfo ELSE mars_info
    /\ mars_group_stat' = IF writer = p THEN txStat ELSE mars_group_stat

\* tx.Rollback(): the transaction's writes are discarded, its lock released
Rollback(p) ==
    /\ writer' = IF writer = p THEN 0 ELSE writer
    /\ txInfo' = IF writer = p THEN EmptyTable ELSE txInfo
    /\ txStat' = IF writer = p THEN EmptyTable ELSE txStat
    /\ UNCHANGED <<mars_info, mars_group_stat>>

\* recordMars returns r for the call c of p
Return(p, c, r) ==
    /\ pc' = [pc EXCEPT ![p] = "idle"]
    /\ ret' = Returned(p, c, r)

\* a return with an error after tx.Rollback() (main.go:520-521, 526-527, 531-532)
\* or after a failed tx.Commit() (main.go:535-537; the driver rolls back)
FailSighting(p, c, step) ==
    /\ Rollback(p)
    /\ Return(p, c, ErrResult(step))
    /\ call' = [call EXCEPT ![p] = NoCall]
    /\ UNCHANGED <<reported, committed>>

\* the skip decided after the increment has been written
SkipReturn_Counting(p, c, info) ==
    /\ mars_info' = IncrementMarsInfo(mars_info, c.groupID, c.dhash, c.msgID)
    /\ UNCHANGED <<mars_group_stat, writer, txInfo, txStat>>
    /\ Return(p, c, [err |-> "", Skipped |-> TRUE, PrevCount |-> c.prevCount,
                     PrevLastMsgID |-> c.prevLastMsgID, Info |-> info])
    /\ call' = [call EXCEPT ![p] = NoCall]
    /\ UNCHANGED <<reported, committed>>

\* main.go:516-517: the skipped sighting rolls back and returns what it read
SkipReturn(p, c, info) ==
    /\ Rollback(p)
    /\ Return(p, c, [err |-> "", Skipped |-> TRUE, PrevCount |-> c.prevCount,
                     PrevLastMsgID |-> c.prevLastMsgID, Info |-> info])
    /\ call' = [call EXCEPT ![p] = NoCall]
    /\ UNCHANGED <<reported, committed>>

\* main.go:503-522: BeginTx, GetMarsInfo and the decision to skip
recordMarsLookup(p, g, m, d, fail) ==
    /\ pc[p] = "idle"
    /\ nOps < MaxOps
    /\ nOps' = nOps + 1
    /\ UNCHANGED items
    /\ LET r == GetMarsInfo(mars_info, g, d)
           c == [groupID |-> g, msgID |-> m, dhash |-> d, found |-> r.found,
                 prevCount |-> r.info.count, prevLastMsgID |-> r.info.last_msg_id,
                 stale |-> FALSE]
       IN IF fail
          THEN FailSighting(p, c, "lookup")
          ELSE IF r.found /\ skipSighting(r.info, m)
          THEN SkipReturn(p, c, r.info)
          ELSE /\ pc' = [pc EXCEPT ![p] = "inc"]
               /\ call' = [call EXCEPT ![p] = c]
               /\ ret' = NoRet
               /\ UNCHANGED <<mars_info, mars_group_stat, writer, txInfo, txStat,
                              reported, committed>>

\* main.go:524-528: IncrementMarsInfo inside the transaction
recordMarsIncrement(p, fail) ==
    /\ pc[p] = "inc"
    /\ UNCHANGED <<nOps, items>>
    /\ IF fail \/ writeLockBusy(p)
       THEN FailSighting(p, call[p], "increment")
       ELSE /\ writer' = p
            /\ txInfo' = IncrementMarsInfo(mars_info, call[p].groupID, call[p].dhash,
                                           call[p].msgID)
            /\ txStat' = mars_group_stat
            /\ pc' = [pc EXCEPT ![p] =
                  IF needGroupStat(call[p].prevCount) THEN "stat" ELSE "commit"]
            /\ ret' = NoRet
            /\ UNCHANGED <<mars_info, mars_group_stat, call, reported, committed>>

\* main.go:529-534: IncrementGroupStat inside the transaction
recordMarsGroupStat(p, fail) ==
    /\ pc[p] = "stat"
    /\ UNCHANGED <<nOps, items>>
    /\ IF fail
       THEN FailSighting(p, call[p], "groupstat")
       ELSE /\ txStat' = IncrementGroupStat(txStat, call[p].groupID)
            /\ pc' = [pc EXCEPT ![p] = "commit"]
            /\ ret' = NoRet
            /\ UNCHANGED <<mars_info, mars_group_stat, writer, txInfo, call, reported,
                           committed>>

BagAdd(b, x) == IF x \in DOMAIN b THEN [b EXCEPT ![x] = @ + 1] ELSE Put(b, x, 1)

\* main.go:535-542: tx.Commit() and the returned marsResult
recordMarsCommit(p, fail) ==
    /\ pc[p] = "commit"
    /\ UNCHANGED <<nOps, items>>
    /\ IF fail
       THEN FailSighting(p, call[p], "commit")
       ELSE /\ mars_info' = txInfo
            /\ mars_group_stat' = txStat
            /\ writer' = 0
            /\ txInfo' = EmptyTable
            /\ txStat' = EmptyTable
            /\ call' = AfterWrite(p)
            /\ Return(p, call[p],
                  [err |-> "", Skipped |-> FALSE, PrevCount |-> call[p].prevCount,
                   PrevLastMsgID |-> call[p].prevLastMsgID, Info |-> txInfo[KeyOf(p)]])
            /\ reported' = BagAdd(reported, <<KeyOf(p), call[p].prevCount>>)
            /\ committed' = committed \cup
                  {<<call[p].groupID, call[p].dhash, call[p].msgID>>}

(***************************************************************************)
(* Whitelist handlers.  SetMarsWhitelist runs outside a transaction, as    *)
(* one autocommit statement: it waits for the write lock (a statement that *)
(* fails changes nothing) and makes open read snapshots stale.             *)
(***************************************************************************)
\* the whitelist statement also counting the row it inserts in the group
\* aggregate
WhitelistWrite_Counting(g, d, flag) ==
    /\ writer = 0
    /\ nOps < MaxOps
    /\ nOps' = nOps + 1
    /\ mars_info' = SetMarsWhitelist(mars_info, g, d, flag)
    /\ mars_group_stat' = IF <<g, d>> \in DOMAIN mars_info THEN mars_group_stat
                           ELSE IncrementGroupStat(mars_group_stat, g)
    /\ call' = AfterWrite(0)
    /\ ret' = NoRet
    /\ UNCHANGED <<writer, txInfo, txStat, pc, reported, committed, items>>

WhitelistWrite(g, d, flag) ==
    /\ writer = 0
    /\ nOps < MaxOps
    /\ nOps' = nOps + 1
    /\ mars_info' = SetMarsWhitelist(mars_info, g, d, flag)
    /\ call' = AfterWrite(0)
    /\ ret' = NoRet
    /\ UNCHANGED <<mars_group_stat, writer, txInfo, txStat, pc, reported,
                   committed, items>>

\* main.go:619-641
handleAddPicWhitelistByCallback(g, d) == WhitelistWrite(g, d, 1)

\* main.go:694-736: the statement runs only when it changes the flag
updateWhitelistForPhoto(g, d, toWhitelist) ==
    LET info == GetMarsInfo(mars_info, g, d).info
    IN /\ ~(toWhitelist /\ info.in_whitelist # 0)
       /\ ~(~toWhitelist /\ info.in_whitelist = 0)
       /\ WhitelistWrite(g, d, IF toWhitelist THEN 1 ELSE 0)

(***************************************************************************)
(* Similar photos.                                                         *)
(***************************************************************************)
NoItems == [chat |-> 0, target |-> <<>>, err |-> FALSE, rows |-> <<>>]

\* the rows of ListSimilarPhotos before ORDER BY and LIMIT: sqlc.embed(mars_info)
\* and hd, for the rows of the group with hd < min_distance
SimilarRows(t, src, g, minDist) ==
    {[MarsInfo |-> [group_id |-> k[1], pic_dhash |-> k[2], count |-> t[k].count,
                    last_msg_id |-> t[k].last_msg_id,
                    in_whitelist |-> t[k].in_whitelist],
      hd |-> hammingDistance(k[2], src).dist] :
        k \in {x \in DOMAIN t : x[1] = g /\ hammingDistance(x[2], src).dist < minDist}}

\* ORDER BY hd: every order of the rows that is ascending in hd (SQL leaves the
\* order of rows with equal hd open)
RECURSIVE OrderByHd(_)
OrderByHd(S) ==
    IF S = {} THEN {<<>>}
    ELSE LET lo == CHOOSE r \in S : \A q \in S : r.hd <= q.hd
         IN UNION {{<<r>> \o s : s \in OrderByHd(S \ {r})} : r \in {q \in S : q.hd = lo.hd}}

Limit(s, n) == SubSeq(s, 1, Min(n, Len(s)))

\* WHERE ... AND hd <= min_distance
ListSimilarPhotos_Inclusive(t, src, g, minDist) ==
    {Limit(s, listLimit) : s \in OrderByHd(SimilarRows(t, src, g, minDist + 1))}

\* query_mars.sql ListSimilarPhotos :many, the lists the statement may return
ListSimilarPhotos(t, src, g, minDist) ==
    {Limit(s, listLimit) : s \in OrderByHd(SimilarRows(t, src, g, minDist))}

\* the registered hamming_distance fails on a length mismatch, and the query with it
ListSimilarPhotosFails(t, src, g) ==
    \E k \in DOMAIN t : k[1] = g /\ hammingDistance(k[2], src).err

\* main.go:964-1004: the find: callback lists the photos within similarHDThreshold
handleFindSimilarByCallback(g, target) ==
    /\ IF ListSimilarPhotosFails(mars_info, target, g)
       THEN items' = [chat |-> g, target |-> target, err |-> TRUE, rows |-> <<>>]
       ELSE \E s \in ListSimilarPhotos(mars_info, target, g, similarHDThreshold) :
               items' = [chat |-> g, target |-> target, err |-> FALSE, rows |-> s]
    /\ ret' = NoRet
    /\ UNCHANGED <<mars_info, mars_group_stat, writer, txInfo, txStat, pc, call, nOps,
                   reported, committed>>

\* the store right after the schema is created, no handler running
StoreIdle ==
    /\ mars_info = EmptyTable
    /\ mars_group_stat = EmptyTable
    /\ writer = 0
    /\ txInfo = EmptyTable
    /\ txStat = EmptyTable
    /\ pc = [p \in Procs |-> "idle"]
    /\ call = [p \in Procs |-> NoCall]
    /\ ret = NoRet
    /\ nOps = 0
    /\ reported = EmptyTable
    /\ committed = {}
    /\ items = NoItems

Init == StoreIdle /\ FnIdle /\ MediaIdle /\ BackupIdle /\ ChatIdle

Next ==
    \/ \E p \in Procs, k \in Keys, m \in MsgIds, fail \in BOOLEAN :
          recordMarsLookup(p, k[1], m, k[2], fail) /\ UNCHANGED <<fnVars, backupVars, chatVars, mediaVars>>
    \/ \E p \in Procs, fail \in BOOLEAN : recordMarsIncrement(p, fail) /\ UNCHANGED <<fnVars, backupVars, chatVars, mediaVars>>
    \/ \E p \in Procs, fail \in BOOLEAN : recordMarsGroupStat(p, fail) /\ UNCHANGED <<fnVars, backupVars, chatVars, mediaVars>>
    \/ \E p \in Procs, fail \in BOOLEAN : recordMarsCommit(p, fail) /\ UNCHANGED <<fnVars, backupVars, chatVars, mediaVars>>
    \/ \E k \in Keys : handleAddPicWhitelistByCallback(k[1], k[2]) /\ UNCHANGED <<fnVars, backupVars, chatVars, mediaVars>>
    \/ \E k \in Keys, w \in BOOLEAN :
          updateWhitelistForPhoto(k[1], k[2], w) /\ UNCHANGED <<fnVars, backupVars, chatVars, mediaVars>>

Spec == Init /\ [][Next]_vars

(***************************************************************************)
(* Properties of recordMars and the whitelist statements.                  *)
(***************************************************************************)
Count(t, k) == IF k \in DOMAIN t THEN t[k].count ELSE 0

BagCount(b, x) == IF x \in DOMAIN b THEN b[x] ELSE 0

RetKey == <<ret.groupID, ret.dhash>>

\* a call of recordMars has just returned without an error
RetOk == ret.proc # 0 /\ ret.res.err = ""

\* C1: a committed sighting of a key that has no record creates the record with
\* count 1 and last_msg_id = msgID, returns PrevCount 0 and Skipped false, and
\* raises the group's image_count by exactly 1.
C1_FirstSighting ==
    [][ \A p \in Procs :
          (/\ ret'.proc = p
           /\ ret'.res.err = ""
           /\ \/ RetKey' \notin DOMAIN mars_info
              \/ (pc[p] = "commit" /\ ~call[p].found))
          => /\ RetKey' \notin DOMAIN mars_info
             /\ RetKey' \in DOMAIN mars_info'
             /\ mars_info'[RetKey'] =
                   [count |-> 1, last_msg_id |-> ret'.msgID, in_whitelist |-> 0]
             /\ ret'.res.PrevCount = 0
             /\ ~ret'.res.Skipped
             /\ ret'.res.Info.count = 1
             /\ GetGroupMarsCount(mars_group_stat', ret'.groupID) =
                   GetGroupMarsCount(mars_group_stat, ret'.groupID) + 1
             /\ \A g \in Groups \ {ret'.groupID} :
                   GetGroupMarsCount(mars_group_stat', g) =
                      GetGroupMarsCount(mars_group_stat, g) ]_vars

\* a first sighting has committed in a group that already had a counted image
C1_Witness ==
    /\ RetOk /\ ~ret.res.Skipped /\ ret.res.PrevCount = 0
    /\ BagCount(reported, <<RetKey, 0>>) = 1
    /\ mars_info[RetKey].count = 1
    /\ mars_info[RetKey].last_msg_id = ret.msgID
    /\ GetGroupMarsCount(mars_group_stat, ret.groupID) = 2

\* C2: a committed sighting of a record with count >= 1, not whitelisted and with
\* another last_msg_id sets count to count + 1 and last_msg_id to msgID, returns
\* the previous count and previous last_msg_id, not Skipped, and leaves
\* mars_group_stat unchanged.
C2_RepeatedSighting ==
    [][ (/\ ret'.proc # 0
         /\ ret'.res.err = ""
         /\ RetKey' \in DOMAIN mars_info
         /\ mars_info[RetKey'].count >= 1
         /\ mars_info[RetKey'].in_whitelist = 0
         /\ mars_info[RetKey'].last_msg_id # ret'.msgID)
        => /\ mars_info' = [mars_info EXCEPT ![RetKey'] =
                  [@ EXCEPT !.count = @ + 1, !.last_msg_id = ret'.msgID]]
           /\ ret'.res.PrevCount = mars_info[RetKey'].count
           /\ ret'.res.PrevLastMsgID = mars_info[RetKey'].last_msg_id
           /\ ~ret'.res.Skipped
           /\ ret'.res.Info = mars_info'[RetKey']
           /\ mars_group_stat' = mars_group_stat ]_vars

\* the spec's scenario (b): msg 100 then msg 101, previous count 1, new count 2
C2_Witness ==
    /\ RetOk /\ ~ret.res.Skipped
    /\ ret.msgID = 101
    /\ ret.res.PrevCount = 1 /\ ret.res.PrevLastMsgID = 100
    /\ mars_info[RetKey].count = 2
    /\ GetGroupMarsCount(mars_group_stat, ret.groupID) = 1

\* C3 as stated: a sighting whose (group, dhash, msg) equals that of any earlier
\* committed sighting is Skipped and leaves the count unchanged.
C3_AnyEarlierSightingSkipped ==
    [][ (/\ ret'.proc # 0
         /\ ret'.res.err = ""
         /\ <<ret'.groupID, ret'.dhash, ret'.msgID>> \in committed)
        => /\ ret'.res.Skipped
           /\ Count(mars_info', RetKey') = Count(mars_info, RetKey') ]_vars

\* C3 amended: a sighting whose msgID equals the last_msg_id stored for its key
\* (the message of the most recent committed sighting of that key) is Skipped and
\* leaves the record unchanged.
C3_LastMessageSkipped ==
    [][ (/\ ret'.proc # 0
         /\ ret'.res.err = ""
         /\ RetKey' \in DOMAIN mars_info
         /\ mars_info[RetKey'].last_msg_id = ret'.msgID)
        => /\ ret'.res.Skipped
           /\ ret'.res.PrevCount = mars_info[RetKey'].count
           /\ mars_info'[RetKey'] = mars_info[RetKey'] ]_vars

\* the replay of the last committed message of a record that is not whitelisted
C3_Witness ==
    /\ RetOk /\ ret.res.Skipped
    /\ <<ret.groupID, ret.dhash, ret.msgID>> \in committed
    /\ mars_info[RetKey].last_msg_id = ret.msgID
    /\ mars_info[RetKey].in_whitelist = 0
    /\ mars_info[RetKey].count = 2

\* C4: while in_whitelist stays set for a key, no step changes the record's count
\* or last_msg_id, and every sighting of the key that returns a result is Skipped,
\* whatever its message id.
C4_WhitelistFreezes ==
    [][ /\ \A k \in DOMAIN mars_info :
              (mars_info[k].in_whitelist # 0 /\ mars_info'[k].in_whitelist # 0)
              => mars_info'[k] = mars_info[k]
        /\ (/\ ret'.proc # 0
            /\ ret'.res.err = ""
            /\ RetKey' \in DOMAIN mars_info
            /\ mars_info[RetKey'].in_whitelist # 0)
           => ret'.res.Skipped ]_vars

\* the spec's scenario (d): a counted record is whitelisted, then sighted with a
\* message id that was never committed for it
C4_Witness ==
    /\ RetOk /\ ret.res.Skipped
    /\ mars_info[RetKey].in_whitelist = 1
    /\ mars_info[RetKey].count = 1
    /\ mars_info[RetKey].last_msg_id # ret.msgID
    /\ <<ret.groupID, ret.dhash, ret.msgID>> \notin committed

\* C5: a sighting that returns Skipped changes no row of mars_info and no row of
\* mars_group_stat.
C5_SkippedMutatesNothing ==
    [][ (ret'.proc # 0 /\ ret'.res.Skipped)
        => /\ mars_info' = mars_info
           /\ mars_group_stat' = mars_group_stat ]_vars

\* a sighting was skipped while another call held the write lock with its
\* uncommitted increment
C5_Witness ==
    /\ RetOk /\ ret.res.Skipped
    /\ ret.res.PrevCount >= 1
    /\ writer # 0 /\ writer # ret.proc
    /\ KeyOf(writer) = RetKey
    /\ txInfo[RetKey].count = mars_info[RetKey].count + 1

RowsOf(t, g) == {k \in DOMAIN t : k[1] = g}

\* C6 as stated: image_count equals the number of mars_info rows of the group,
\* rows created by SetMarsWhitelist included.
C6_CountsEveryRow ==
    \A g \in Groups :
        GetGroupMarsCount(mars_group_stat, g) = Cardinality(RowsOf(mars_info, g))

\* C6 amended: image_count equals the number of mars_info rows of the group that
\* have count >= 1; a row created by SetMarsWhitelist has count 0 and is not
\* counted until its first sighting commits.
C6_CountsSightedRows ==
    \A g \in Groups :
        GetGroupMarsCount(mars_group_stat, g) =
            Cardinality({k \in RowsOf(mars_info, g) : mars_info[k].count >= 1})

\* a group with a row created by the whitelist statement and a sighted row
C6_Witness ==
    \E g \in Groups :
        /\ GetGroupMarsCount(mars_group_stat, g) = 1
        /\ \E k \in RowsOf(mars_info, g) :
              mars_info[k] = [count |-> 0, last_msg_id |-> 0, in_whitelist |-> 1]
        /\ \E k \in RowsOf(mars_info, g) : mars_info[k].count = 2

\* C7: of the concurrent sightings of an unseen key at most one commits with
\* PrevCount 0, the key then has its row, and the group's image_count is the
\* number of its keys that had such a commit.
C7_OneFirstSeen ==
    /\ \A k \in Keys :
          /\ BagCount(reported, <<k, 0>>) <= 1
          /\ BagCount(reported, <<k, 0>>) = 1 => k \in DOMAIN mars_info
    /\ \A g \in Groups :
          GetGroupMarsCount(mars_group_stat, g) =
             Cardinality({k \in Keys : k[1] = g /\ BagCount(reported, <<k, 0>>) >= 1})

\* two calls read the same key as absent; one has committed as FirstSeen while
\* the other is still inside its transaction
C7_Witness ==
    /\ RetOk /\ ~ret.res.Skipped /\ ret.res.PrevCount = 0
    /\ \E q \in Procs :
          /\ pc[q] = "inc"
          /\ KeyOf(q) = RetKey
          /\ ~call[q].found
    /\ GetGroupMarsCount(mars_group_stat, ret.groupID) = 1

RECURSIVE BagTotal(_, _)
BagTotal(b, S) ==
    IF S = {} THEN 0
    ELSE LET x == CHOOSE y \in S : TRUE IN b[x] + BagTotal(b, S \ {x})

\* C8: the count of every key equals the number of sightings of it that committed
\* (the store starts empty), and no two committed sightings of a key return the
\* same PrevCount.
C8_NoLostUpdate ==
    /\ \A k \in Keys :
          Count(mars_info, k) = BagTotal(reported, {x \in DOMAIN reported : x[1] = k})
    /\ \A x \in DOMAIN reported : reported[x] = 1

\* two calls with distinct message ids read the same previous count of one key;
\* one has committed, the other is inside its transaction on a stale snapshot
C8_Witness ==
    /\ RetOk /\ ~ret.res.Skipped
    /\ mars_info[RetKey].count = ret.res.PrevCount + 1
    /\ \E q \in Procs :
          /\ pc[q] = "inc"
          /\ call[q].stale
          /\ KeyOf(q) = RetKey
          /\ call[q].prevCount = ret.res.PrevCount
          /\ call[q].msgID # ret.msgID

\* C9: a sighting that returns an error leaves mars_info and mars_group_stat as
\* they were, and no step raises a record to count 1 without raising the
\* image_count of its group by 1.
C9_FailureAtomic ==
    [][ /\ (ret'.proc # 0 /\ ret'.res.err # "")
           => /\ mars_info' = mars_info
              /\ mars_group_stat' = mars_group_stat
              /\ ret'.res = ErrResult(ret'.res.err)
        /\ \A k \in Keys :
              (Count(mars_info, k) = 0 /\ Count(mars_info', k) = 1)
              => GetGroupMarsCount(mars_group_stat', k[1]) =
                    GetGroupMarsCount(mars_group_stat, k[1]) + 1 ]_vars

\* the commit of a first sighting failed after both increments were written
C9_Witness ==
    /\ ret.proc # 0 /\ ret.res.err = "commit"
    /\ RetKey \notin DOMAIN mars_info
    /\ GetGroupMarsCount(mars_group_stat, ret.groupID) = 0
    /\ writer = 0

(***************************************************************************)
(* The similarity query on stores filled by first sightings: group 1 holds *)
(* any subset of NearSet, group 2 one fingerprint.                         *)
(***************************************************************************)
\* fingerprint i has the low ((i-1) % 5) + 1 bits of byte ((i-1) \div 5) + 1 set
NearDhash(i) ==
    [j \in 1..dhashLen |->
        IF j = ((i - 1) \div 5) + 1 THEN 2 ^ (((i - 1) % 5) + 1) - 1 ELSE 0]

Far == MkDhash(255, 1)

NearSet == {NearDhash(i) : i \in 1..MaxNear} \cup {Far}

Targets == {H, NearDhash(1)}

FirstSeenRow == [count |-> 1, last_msg_id |-> 100, in_whitelist |-> 0]

InitNearest ==
    /\ \E S \in SUBSET NearSet :
          LET K == {<<1, d>> : d \in S} \cup {<<2, NearDhash(1)>>}
          IN /\ mars_info = [k \in K |-> FirstSeenRow]
             /\ mars_group_stat = [g \in {k[1] : k \in K} |->
                                      Cardinality({k \in K : k[1] = g})]
             /\ reported = [x \in {<<k, 0>> : k \in K} |-> 1]
             /\ committed = {<<k[1], k[2], 100>> : k \in K}
    /\ writer = 0
    /\ txInfo = EmptyTable
    /\ txStat = EmptyTable
    /\ pc = [p \in Procs |-> "idle"]
    /\ call = [p \in Procs |-> NoCall]
    /\ ret = NoRet
    /\ nOps = 0
    /\ items = NoItems
    /\ FnIdle
    /\ BackupIdle
    /\ ChatIdle
    /\ MediaIdle

NextNearest ==
    \E g \in Groups, target \in Targets :
        handleFindSimilarByCallback(g, target) /\ UNCHANGED <<fnVars, backupVars, chatVars, mediaVars>>

SpecNearest == InitNearest /\ [][NextNearest]_vars

\* the rows of the group that a list with threshold D may contain
Within(g, target, D) ==
    {k \in DOMAIN mars_info :
        k[1] = g /\ hammingDistance(k[2], target).dist < D}

RowKey(r) == <<r.MarsInfo.group_id, r.MarsInfo.pic_dhash>>

\* C10: the list holds only rows of the asked group whose Hamming distance to the
\* target is strictly below the threshold, each once and with that distance, in
\* ascending order of distance, at most 10 of them; it holds all of them when
\* there are at most 10, and otherwise none farther than a row it leaves out.
C10_NearestBounded ==
    (items.chat # 0 /\ ~items.err) =>
       LET rows == items.rows
           W == Within(items.chat, items.target, similarHDThreshold)
       IN /\ \A i \in 1..Len(rows) :
                /\ RowKey(rows[i]) \in W
                /\ rows[i].hd = hammingDistance(rows[i].MarsInfo.pic_dhash,
                                                items.target).dist
                /\ rows[i].hd < similarHDThreshold
                /\ rows[i].MarsInfo.count = mars_info[RowKey(rows[i])].count
          /\ \A i, j \in 1..Len(rows) :
                /\ i < j => rows[i].hd <= rows[j].hd
                /\ i # j => RowKey(rows[i]) # RowKey(rows[j])
          /\ Len(rows) <= listLimit
          /\ Len(rows) = Min(listLimit, Cardinality(W))
          /\ \A k \in W \ {RowKey(rows[i]) : i \in 1..Len(rows)} :
                \A i \in 1..Len(rows) :
                   rows[i].hd <= hammingDistance(k[2], items.target).dist

\* the spec's scenario (e): stored distances {2, 9, 5} from the target, threshold 6
C10_Witness ==
    /\ items.chat = 1 /\ items.target = H /\ ~items.err
    /\ {k[2] : k \in RowsOf(mars_info, 1)} = {NearDhash(2), Far, NearDhash(5)}
    /\ {hammingDistance(d, H).dist : d \in {NearDhash(2), Far, NearDhash(5)}} = {2, 9, 5}
    /\ Len(items.rows) = 2
    /\ items.rows[1].MarsInfo.pic_dhash = NearDhash(2) /\ items.rows[1].hd = 2
    /\ items.rows[2].MarsInfo.pic_dhash = NearDhash(5) /\ items.rows[2].hd = 5

\* more than 10 stored rows are within the threshold and 10 are listed
NearestTruncated ==
    /\ items.chat = 1 /\ ~items.err
    /\ Cardinality(Within(1, items.target, similarHDThreshold)) > listLimit
    /\ Len(items.rows) = listLimit

(***************************************************************************)
(* hammingDistance as a function of two byte buffers.  The buffers have    *)
(* 7, 8 or 9 bytes; their first MaxVaried bytes range over ByteVals and    *)
(* the others are all 0 or all 255.                                        *)
(***************************************************************************)
ByteVals == {0, 1, 90, 128, 255}

Fills == {0, 255}

Buffers ==
    {[j \in 1..n |-> IF j <= MaxVaried THEN v[j] ELSE fill] :
        n \in (dhashLen - 1)..(dhashLen + 1), v \in [1..MaxVaried -> ByteVals],
        fill \in Fills}

InitHamming ==
    /\ StoreIdle
    /\ MediaIdle
    /\ BackupIdle
    /\ ChatIdle
    /\ arg \in Buffers \X Buffers
    /\ out = NoOut

\* the SQL function hamming_distance(pic_dhash, src_dhash) is called
callHammingDistance ==
    /\ out = NoOut
    /\ out' = hammingDistance(arg[1], arg[2])
    /\ UNCHANGED <<storeVars, mediaVars, backupVars, chatVars, arg>>

NextHamming == callHammingDistance

SpecHamming == InitHamming /\ [][NextHamming]_vars

\* bit k (0 the lowest) of byte b
BitOf(b, k) == (b \div (2 ^ k)) % 2

\* the bit positions at which two buffers of one length differ
DiffBits(a, b) ==
    {x \in (1..Len(a)) \X (0..7) : BitOf(a[x[1]], x[2]) # BitOf(b[x[1]], x[2])}

\* C17: hammingDistance fails when the lengths differ; otherwise it returns
\* the number of bit positions at which the buffers differ, which for 8-byte
\* buffers is in 0..64, is 0 for equal buffers and only for them, and does
\* not depend on the order of the arguments.
C17_HammingDistance ==
    out # NoOut =>
        /\ out.err = (Len(arg[1]) # Len(arg[2]))
        /\ out.err => out.dist = 0
        /\ ~out.err =>
              /\ out.dist = Cardinality(DiffBits(arg[1], arg[2]))
              /\ out.dist \in 0..(8 * Len(arg[1]))
              /\ (out.dist = 0) = (arg[1] = arg[2])
              /\ out = hammingDistance(arg[2], arg[1])
              /\ hammingDistance(arg[1], arg[1]).dist = 0

\* two different 8-byte buffers at the largest distance, 64
C17_Witness ==
    /\ out # NoOut
    /\ ~out.err
    /\ Len(arg[1]) = dhashLen
    /\ out.dist = 64
    /\ arg[1] # arg[2]

\* buffers of different lengths are refused
HammingMismatch == out # NoOut /\ out.err /\ Len(arg[1]) = dhashLen

(***************************************************************************)
(* minicv/mini_cv.c mini_pack_dhash_bits: img holds 8 rows of width        *)
(* grayscale pixels, read at img[y * width + x] (here from index 1).       *)
(***************************************************************************)
RECURSIVE Or8(_, _)
Or8(a, b) ==
    IF a = 0 /\ b = 0 THEN 0
    ELSE (IF (a % 2) + (b % 2) > 0 THEN 1 ELSE 0) + 2 * Or8(a \div 2, b \div 2)

\* the mask with the lowest bit first
pack_mask_LsbFirst(bit_index) == 2 ^ (bit_index % 8)

\* mask = 1u << (7 - (bit_index & 7))
pack_mask(bit_index) == 2 ^ (7 - (bit_index % 8))

\* the comparison that also sets the bit of equal neighbours
pack_test_NotLess(left, right) == left >= right

\* row[x] > row[x + 1]
pack_test(left, right) == left > right

\* the loop over x from x on, for line y starting at offset row: byte is
\* out_hash[bit_index >> 3], the one byte the line writes (bit_index = y * 8
\* + x with x < 8)
RECURSIVE pack_row(_, _, _, _, _)
pack_row(img, row, y, byte, x) ==
    IF x >= 8 THEN byte
    ELSE pack_row(img, row, y,
                  IF pack_test(img[row + x + 1], img[row + x + 2])
                  THEN Or8(byte, pack_mask(y * 8 + x))
                  ELSE byte,
                  x + 1)

\* the loop over y from y on
RECURSIVE pack_loop(_, _, _, _)
pack_loop(img, width, out_hash, y) ==
    IF y >= 8 THEN out_hash
    ELSE pack_loop(img, width,
                   [out_hash EXCEPT ![y + 1] = pack_row(img, y * width, y, @, 0)],
                   y + 1)

mini_pack_dhash_bits(img, width) == pack_loop(img, width, [j \in 1..8 |-> 0], 0)

\* rows of 9 pixels: flat, rising, falling, and a flat row with one pixel
\* above or below the others
FlatRow(v) == [x \in 1..9 |-> v]
RisingRow == [x \in 1..9 |-> 10 * x]
FallingRow == [x \in 1..9 |-> 255 - 10 * x]
SpikeRow(k, base, v) == [x \in 1..9 |-> IF x = k THEN v ELSE base]

GridRows ==
    {FlatRow(0), FlatRow(255), RisingRow, FallingRow}
        \cup {SpikeRow(k, 100, 101) : k \in 1..9}
        \cup {SpikeRow(k, 100, 99) : k \in 1..9}

\* the 9x8 grid with row r1 at line y0 and row r2 at the other lines
Grid(y0, r1, r2) ==
    [i \in 1..72 |-> IF (i - 1) \div 9 = y0 THEN r1[((i - 1) % 9) + 1]
                                            ELSE r2[((i - 1) % 9) + 1]]

InitPack ==
    /\ StoreIdle
    /\ MediaIdle
    /\ BackupIdle
    /\ ChatIdle
    /\ \E y0 \in 0..7, r1 \in GridRows, r2 \in GridRows :
          arg = [img |-> Grid(y0, r1, r2), width |-> 9]
    /\ out = NoOut

callPackDhashBits ==
    /\ out = NoOut
    /\ out' = mini_pack_dhash_bits(arg.img, arg.width)
    /\ UNCHANGED <<storeVars, mediaVars, backupVars, chatVars, arg>>

NextPack == callPackDhashBits

SpecPack == InitPack /\ [][NextPack]_vars

\* pixel (x, y) of a 9-wide grid, x in 0..8 and y in 0..7
GridAt(img, x, y) == img[y * 9 + x + 1]

\* C18: bit y*8+x of the fingerprint, kept in byte i \div 8 at bit position
\* 7 - (i % 8), is set exactly when grid[y][x] > grid[y][x+1]; equal
\* neighbours give 0 and column 8 is only compared with column 7.
C18_PackBits ==
    out # NoOut =>
        /\ Len(out) = 8
        /\ \A y \in 0..7, x \in 0..7 :
              LET i == y * 8 + x
              IN (BitOf(out[(i \div 8) + 1], 7 - (i % 8)) = 1)
                    = (GridAt(arg.img, x, y) > GridAt(arg.img, x + 1, y))
        /\ \A j \in 1..8 : out[j] \in 0..255

\* a grid with equal neighbours, a set first bit (the high bit of a byte)
\* and a ninth column below the eighth
C18_Witness ==
    /\ out # NoOut
    /\ \E y \in 0..7 :
          /\ GridAt(arg.img, 0, y) > GridAt(arg.img, 1, y)
          /\ GridAt(arg.img, 1, y) = GridAt(arg.img, 2, y)
          /\ out[y + 1] = 128
    /\ \E y \in 0..7 :
          /\ GridAt(arg.img, 7, y) > GridAt(arg.img, 8, y)
          /\ out[y + 1] = 1

(***************************************************************************)
(* minicv/mini_cv.c: colour reduction and resampling to the 9x8 grid.      *)
(* A buffer is a function S giving the byte at an offset (from 0).         *)
(* float and double values are kept as exact fractions: the conversions    *)
(* of the code lose less than 2^-20 of a value, which moves a result only  *)
(* when it lies that close to a rounding boundary.                         *)
(***************************************************************************)
MINI_GRAY_SHIFT == 15
MINI_RY15 == 9798
MINI_GY15 == 19235
MINI_BY15 == 3735
COEF_BITS == 11
ONE == 2 ^ COEF_BITS

\* v >> k for v >= 0
Shr(v, k) == v \div (2 ^ k)

mini_saturate_u8(v) == IF v < 0 THEN 0 ELSE IF v > 255 THEN 255 ELSE v

\* rounding of num / den to the nearest integer with a tie going up
lrintf_HalfUp(num, den) ==
    LET q == num \div den
        r == num % den
    IN IF 2 * r < den THEN q ELSE q + 1

\* lrintf of num / den, den > 0: to the nearest integer, a tie to the even one
lrintf(num, den) ==
    LET q == num \div den
        r == num % den
    IN IF 2 * r < den THEN q
       ELSE IF 2 * r > den THEN q + 1
       ELSE IF q % 2 = 0 THEN q ELSE q + 1

mini_saturate_from_float(num, den) == mini_saturate_u8(lrintf(num, den))

RECURSIVE SumFn(_, _)
SumFn(f, S) ==
    IF S = {} THEN 0
    ELSE LET x == CHOOSE x \in S : TRUE IN f[x] + SumFn(f, S \ {x})

\* one pixel of mini_bgr_to_gray with blue_idx 0 (MINI_BGR2GRAY): p[0] is
\* taken as blue and p[2] as red
mini_bgr_to_gray_BlueFirst(r, g, b) ==
    mini_saturate_u8(Shr(r * MINI_BY15 + g * MINI_GY15 + b * MINI_RY15
                            + 2 ^ (MINI_GRAY_SHIFT - 1), MINI_GRAY_SHIFT))

\* one pixel of mini_bgr_to_gray with blue_idx 2 (MINI_RGBA2GRAY): p[0] is
\* red, p[1] green, p[2] blue; p[3] is not read
mini_bgr_to_gray(r, g, b) ==
    mini_saturate_u8(Shr(b * MINI_BY15 + g * MINI_GY15 + r * MINI_RY15
                            + 2 ^ (MINI_GRAY_SHIFT - 1), MINI_GRAY_SHIFT))

\* mini_compute_resize_area_tab for destination index dx, cn = 1: the
\* entries <<branch, si, weight>> with alpha = weight / cell, both in units
\* of 1 / dsize (scale = ssize / dsize)
mini_compute_resize_area_tab(ssize, dsize, dx) ==
    LET fsx1 == dx * ssize
        fsx2 == fsx1 + ssize
        cell == Min(ssize, ssize * dsize - fsx1)
        sx2  == Min(fsx2 \div dsize, ssize - 1)
        sx1  == Min((fsx1 + dsize - 1) \div dsize, sx2)
        head == sx1 * dsize - fsx1
        tail == fsx2 - sx2 * dsize
    IN [cell |-> cell,
        tab |-> (IF head * 1000 > dsize THEN {<<1, sx1 - 1, head>>} ELSE {})
                  \cup {<<2, sx, dsize>> : sx \in sx1..(sx2 - 1)}
                  \cup (IF tail * 1000 > dsize
                        THEN {<<3, sx2, Min(Min(tail, dsize), cell)>>} ELSE {})]

\* mini_resize_area_fast_int, one output pixel
mini_resize_area_fast_int(S, src_stride, dx, dy, iscale_x, iscale_y) ==
    LET block == (0..(iscale_x - 1)) \X (0..(iscale_y - 1))
        sum == SumFn([k \in block |->
                        S[(dy * iscale_y + k[2]) * src_stride + dx * iscale_x + k[1]]],
                     block)
    IN IF iscale_x = 2 /\ iscale_y = 2 THEN Shr(sum + 2, 2)
       ELSE mini_saturate_from_float(sum, iscale_x * iscale_y)

\* lround of num / den, num >= 0 and den > 0: to the nearest integer, a tie
\* away from zero
lround(num, den) == (2 * num + den) \div (2 * den)

\* fabs(scale - (double)iscale) < 1e-6 with scale = ssize / dsize
near_integer(ssize, dsize, iscale) ==
    LET diff == ssize - iscale * dsize
    IN (IF diff < 0 THEN -diff ELSE diff) * 1000000 < dsize

\* the integer-scale test of mini_resize_area_down
is_integer_scale(src_w, src_h, dst_w, dst_h) ==
    /\ near_integer(src_w, dst_w, lround(src_w, dst_w))
    /\ near_integer(src_h, dst_h, lround(src_h, dst_h))

\* mini_resize_area_down, one output pixel
mini_resize_area_down(S, src_w, src_h, src_stride, dst_w, dst_h, dx, dy) ==
    IF is_integer_scale(src_w, src_h, dst_w, dst_h)
    THEN mini_resize_area_fast_int(S, src_stride, dx, dy,
                                   lround(src_w, dst_w), lround(src_h, dst_h))
    ELSE LET xt == mini_compute_resize_area_tab(src_w, dst_w, dx)
             yt == mini_compute_resize_area_tab(src_h, dst_h, dy)
             E == xt.tab \X yt.tab
         IN mini_saturate_from_float(
                SumFn([e \in E |-> e[1][3] * e[2][3] * S[e[2][2] * src_stride + e[1][2]]], E),
                xt.cell * yt.cell)

\* the source index and second weight taken from the half-pixel coordinate
\* (d + 0.5) * ssize / dsize - 0.5
linear_ofs_HalfPixel(ssize, dsize, d) ==
    LET c == (2 * d + 1) * ssize - dsize              \* the coordinate * 2 * dsize
        s == c \div (2 * dsize)
    IN [s |-> IF s < 0 THEN 0 ELSE IF s > ssize - 1 THEN ssize - 1 ELSE s,
        w1 |-> lrintf(ONE * (c % (2 * dsize)), 2 * dsize)]

\* mini_resize_area_linear: source index and second weight of destination
\* index d on an axis of ssize source and dsize destination pixels
linear_ofs(ssize, dsize, d) ==
    IF ssize > 1
    THEN LET s == (d * ssize) \div dsize
             f == (d + 1) * ssize - (s + 1) * dsize      \* fx * ssize
             fx == IF f <= 0 THEN 0 ELSE f % ssize
         IN IF s >= ssize - 1
            THEN [s |-> ssize - 2, w1 |-> lrintf(ONE * ssize, ssize)]
            ELSE [s |-> s, w1 |-> lrintf(ONE * fx, ssize)]
    ELSE [s |-> 0, w1 |-> 0]

\* sx1 = sx0 + cn without the test against the end of the row
linear_sx1_NoClamp(sx0, src_w) == sx0 + 1

\* sx1 = sx0 + cn; if (sx1 >= src_w * cn) sx1 = sx0
linear_sx1(sx0, src_w) == IF sx0 + 1 >= src_w THEN sx0 ELSE sx0 + 1

\* mini_resize_area_linear, one output pixel
mini_resize_area_linear(S, src_w, src_h, src_stride, dst_w, dst_h, dx, dy) ==
    LET ox == linear_ofs(src_w, dst_w, dx)
        oy == linear_ofs(src_h, dst_h, dy)
        srow0 == oy.s * src_stride
        srow1 == IF src_h > 1 THEN (oy.s + 1) * src_stride ELSE srow0
        sx0 == ox.s
        sx1 == linear_sx1(sx0, src_w)
        wx1 == ox.w1
        wx0 == ONE - wx1
        wy1 == oy.w1
        wy0 == ONE - wy1
        t0 == wx0 * S[srow0 + sx0] + wx1 * S[srow0 + sx1]
        t1 == wx0 * S[srow1 + sx0] + wx1 * S[srow1 + sx1]
        v0 == Shr(wy0 * Shr(t0, 4), 16)
        v1 == Shr(wy1 * Shr(t1, 4), 16)
    IN mini_saturate_u8(Shr(v0 + v1 + 2, 2))

\* the kernel selected when one upscaled axis does not rule out the area
\* kernels
resize_path_EitherAxis(src_w, src_h, dst_w, dst_h) ==
    IF src_w >= dst_w \/ src_h >= dst_h
    THEN (IF is_integer_scale(src_w, src_h, dst_w, dst_h) THEN "fast" ELSE "area")
    ELSE "linear"

\* the kernel mini_resize_area_u8 selects: scale_x >= 1.0 && scale_y >= 1.0
\* with scale = src / dst
resize_path(src_w, src_h, dst_w, dst_h) ==
    IF src_w >= dst_w /\ src_h >= dst_h
    THEN (IF is_integer_scale(src_w, src_h, dst_w, dst_h) THEN "fast" ELSE "area")
    ELSE "linear"

\* the kernels that allocate their tables with malloc
resize_allocates(path) == path \in {"area", "linear"}

\* mini_resize_area_u8 with one channel: rc and the dst_w x dst_h result
\* (dst_stride = dst_w); alloc is FALSE when malloc returns NULL
mini_resize_area_u8(S, src_w, src_h, src_stride, dst_w, dst_h, alloc) ==
    LET path == resize_path(src_w, src_h, dst_w, dst_h)
    IN IF src_w <= 0 \/ src_h <= 0 \/ dst_w <= 0 \/ dst_h <= 0
       THEN [rc |-> -1, dst |-> <<>>]
       ELSE IF resize_allocates(path) /\ ~alloc
       THEN [rc |-> -1, dst |-> <<>>]
       ELSE [rc |-> 0,
             dst |-> [i \in 1..(dst_w * dst_h) |->
                        LET dx == (i - 1) % dst_w
                            dy == (i - 1) \div dst_w
                        IN IF path = "linear"
                           THEN mini_resize_area_linear(S, src_w, src_h, src_stride,
                                                        dst_w, dst_h, dx, dy)
                           ELSE mini_resize_area_down(S, src_w, src_h, src_stride,
                                                      dst_w, dst_h, dx, dy)]]

(***************************************************************************)
(* minicv/mini_cv.c mini_dhash_from_raw on a raw pixel buffer.  An image   *)
(* is [width, height, stride, code, colour]: every pixel has the colour    *)
(* <<r, g, b, a>>, or with colour = <<>> the pixels form a gradient.       *)
(***************************************************************************)
INT_MAX == 2147483647

GradientRGBA(x, y) ==
    <<(40 * x + 3 * y) % 256, (17 * x + 29 * y) % 256, (50 * y) % 256, 255>>

PixelRGBA(img, x, y) == IF img.colour = <<>> THEN GradientRGBA(x, y) ELSE img.colour

\* the byte at offset i of raw: four bytes a pixel for MINI_RGBA2GRAY (the
\* Pix of an image.RGBA), one for MINI_NO_CHANGE (the Pix of an image.Gray)
RawByte(img, i) ==
    LET y == i \div img.stride
        o == i % img.stride
    IN IF img.code = "MINI_RGBA2GRAY"
       THEN PixelRGBA(img, o \div 4, y)[(o % 4) + 1]
       ELSE PixelRGBA(img, o, y)[1]

\* what the byte at offset i of a malloc'ed buffer holds before it is
\* written: nothing the code controls; junk selects one of the contents
JunkByte(junk, i) == (junk * 37 * (i + 1)) % 256

\* mini_cvtcolor_u8 writing its rows width bytes apart while the resampler
\* reads them stride bytes apart
GrayByte_PackedRows(img, junk, i) ==
    IF img.code = "MINI_NO_CHANGE" THEN RawByte(img, i)
    ELSE LET y == i \div img.width
             x == i % img.width
         IN IF y < img.height
            THEN mini_bgr_to_gray(RawByte(img, y * img.stride + 4 * x),
                                  RawByte(img, y * img.stride + 4 * x + 1),
                                  RawByte(img, y * img.stride + 4 * x + 2))
            ELSE JunkByte(junk, i)

\* the byte at offset i of gray: raw itself, or the malloc'ed buffer that
\* mini_cvtcolor_u8 fills at the first width bytes of every row (dst_stride
\* = stride)
GrayByte(img, junk, i) ==
    IF img.code = "MINI_NO_CHANGE" THEN RawByte(img, i)
    ELSE LET y == i \div img.stride
             x == i % img.stride
         IN IF x < img.width /\ y < img.height
            THEN mini_bgr_to_gray(RawByte(img, y * img.stride + 4 * x),
                                  RawByte(img, y * img.stride + 4 * x + 1),
                                  RawByte(img, y * img.stride + 4 * x + 2))
            ELSE JunkByte(junk, i)

ZeroHash == [j \in 1..8 |-> 0]

\* mini_dhash_from_raw: rc and out_hash (left as the caller's zero array
\* when rc # 0); alloc is FALSE when malloc returns NULL
mini_dhash_from_raw(img, junk, alloc) ==
    LET S == [i \in 0..(img.stride * img.height - 1) |-> GrayByte(img, junk, i)]
        r == mini_resize_area_u8(S, img.width, img.height, img.stride, 9, 8, alloc)
    IN IF img.width <= 0 \/ img.height <= 0 \/ img.stride <= 0
       THEN [rc |-> -1, out_hash |-> ZeroHash]
       ELSE IF img.width > INT_MAX \div 4 \/ img.height > INT_MAX
       THEN [rc |-> -2, out_hash |-> ZeroHash]
       ELSE IF img.stride < img.width
       THEN [rc |-> -3, out_hash |-> ZeroHash]
       ELSE IF img.code # "MINI_NO_CHANGE" /\ Max(img.width, img.stride) * img.height = 0
       THEN [rc |-> -4, out_hash |-> ZeroHash]
       ELSE IF img.code # "MINI_NO_CHANGE" /\ ~alloc
       THEN [rc |-> -5, out_hash |-> ZeroHash]
       ELSE IF r.rc # 0
       THEN [rc |-> r.rc, out_hash |-> ZeroHash]
       ELSE [rc |-> 0, out_hash |-> mini_pack_dhash_bits(r.dst, 9)]

Widths == {-1, 0, 1, 2, 8, 9, 10, 18, 27, INT_MAX \div 4 + 1}
Heights == {0, 1, 7, 8, 9, 16}
Colours == {<<>>, <<0, 0, 0, 255>>, <<255, 255, 255, 255>>, <<200, 100, 50, 128>>}
Codes == {"MINI_RGBA2GRAY", "MINI_NO_CHANGE"}

\* the stride of the Pix of an image.RGBA or image.Gray of that width
PixStride(code, width) == IF code = "MINI_RGBA2GRAY" THEN 4 * width ELSE width

\* the strides a caller passes: that of the Pix, or one below the width
Strides(code, width) ==
    IF width > INT_MAX \div 4 THEN {width} ELSE {PixStride(code, width), width - 1}

RawImages ==
    {img \in [width : Widths, height : Heights, code : Codes, colour : Colours,
              stride : UNION {Strides(c, w) : c \in Codes, w \in Widths}] :
        img.stride \in Strides(img.code, img.width)}

InitRaw ==
    /\ StoreIdle
    /\ MediaIdle
    /\ BackupIdle
    /\ ChatIdle
    /\ arg \in RawImages
    /\ out = NoOut

\* one call of mini_dhash_from_raw on the image
callDhashFromRaw(junk, alloc) ==
    /\ Len(out) < MaxCalls
    /\ out' = Append(out, mini_dhash_from_raw(arg, junk, alloc))
    /\ UNCHANGED <<storeVars, mediaVars, backupVars, chatVars, arg>>

NextRaw == \E junk \in {0, 1}, alloc \in BOOLEAN : callDhashFromRaw(junk, alloc)

SpecRaw == InitRaw /\ [][NextRaw]_vars

Uniform(img) == img.colour # <<>>

\* C19: the calls of the hash function on one image that return a
\* fingerprint all return the same one, whatever the unwritten memory holds,
\* and for an image of one colour it is the all-zero fingerprint, on the
\* bilinear path (width < 9 or height < 8, 1x1 included) as on the area paths.
C19_DeterministicUniformZero ==
    \A i \in 1..Len(out) :
        out[i].rc = 0 =>
            /\ \A j \in 1..Len(out) : out[j].rc = 0 => out[j].out_hash = out[i].out_hash
            /\ Uniform(arg) => out[i].out_hash = ZeroHash

\* two calls that return the fingerprint of a 1x1 image of one colour
C19_Witness ==
    /\ Len(out) >= 2
    /\ out[1].rc = 0 /\ out[2].rc = 0
    /\ Uniform(arg)
    /\ arg.width = 1 /\ arg.height = 1
    /\ arg.code = "MINI_RGBA2GRAY"
    /\ out[1].out_hash = ZeroHash

\* a one-colour image on each kernel
UniformOnPath(path) ==
    /\ Len(out) >= 1
    /\ out[1].rc = 0
    /\ Uniform(arg)
    /\ resize_path(arg.width, arg.height, 9, 8) = path

UniformLinear == UniformOnPath("linear")
UniformFast == UniformOnPath("fast")
UniformArea == UniformOnPath("area")

\* a gradient image has a fingerprint other than zero
GradientNonZero == Len(out) >= 1 /\ out[1].rc = 0 /\ ~Uniform(arg) /\ out[1].out_hash # ZeroHash

(***************************************************************************)
(* Photo messages: minicv.DHashBytes, getDHash with the fuid_to_dhash      *)
(* cache, processSinglePhoto and the media-group buffer of main.go.        *)
(* A photo is [uid, data]; data is [len, img] with img the image that      *)
(* image.Decode returns, <<>> when the bytes do not decode.                *)
(***************************************************************************)
Undecodable == <<>>

Image(w, h, s, c, col) == [width |-> w, height |-> h, stride |-> s, code |-> c, colour |-> col]

PhotoA == [uid |-> "a", data |-> [len |-> 70,
              img |-> Image(1, 1, 4, "MINI_RGBA2GRAY", <<0, 0, 0, 255>>)]]
PhotoB == [uid |-> "b", data |-> [len |-> 140,
              img |-> Image(9, 8, 9, "MINI_NO_CHANGE", <<>>)]]
PhotoEmpty == [uid |-> "empty", data |-> [len |-> 0, img |-> Undecodable]]
PhotoUndecodable == [uid |-> "text", data |-> [len |-> 12, img |-> Undecodable]]
PhotoNoWidth == [uid |-> "w0", data |-> [len |-> 60,
              img |-> Image(0, 1, 0, "MINI_RGBA2GRAY", <<0, 0, 0, 255>>)]]
PhotoNoHeight == [uid |-> "h0", data |-> [len |-> 60,
              img |-> Image(1, 0, 4, "MINI_RGBA2GRAY", <<0, 0, 0, 255>>)]]
PhotoTooLarge == [uid |-> "huge", data |-> [len |-> 90,
              img |-> Image(INT_MAX \div 4 + 1, 1, INT_MAX \div 4 + 1, "MINI_NO_CHANGE",
                            <<0, 0, 0, 255>>)]]
PhotoBadStride == [uid |-> "stride", data |-> [len |-> 80,
              img |-> Image(2, 2, 1, "MINI_NO_CHANGE", <<0, 0, 0, 255>>)]]

BadPhotos == {PhotoEmpty, PhotoUndecodable, PhotoNoWidth, PhotoNoHeight, PhotoTooLarge,
              PhotoBadStride}

\* the photos of single messages, and those of media-group messages
SinglePhotos == {PhotoA, PhotoB} \cup BadPhotos
GroupPhotos == {PhotoA, PhotoB, PhotoEmpty}

\* dhash.go dhashFromImage: [err, out]
dhashFromImage(img, alloc) ==
    IF img.width <= 0 \/ img.height <= 0 THEN [err |-> "invalid image size", out |-> ZeroHash]
    ELSE IF img.width > INT_MAX \div 4 \/ img.height > INT_MAX
    THEN [err |-> "image too large", out |-> ZeroHash]
    ELSE LET r == mini_dhash_from_raw(img, 0, alloc)
         IN IF r.rc # 0
            THEN [err |-> "C function mini_dhash_from_raw failed", out |-> r.out_hash]
            ELSE [err |-> "", out |-> r.out_hash]

\* dhash.go DHashBytes: [err, out]
DHashBytes(data, alloc) ==
    IF data.len = 0 THEN [err |-> "empty image data", out |-> ZeroHash]
    ELSE IF data.img = Undecodable THEN [err |-> "decode", out |-> ZeroHash]
    ELSE dhashFromImage(data.img, alloc)

\* DHashBytes of every photo of the model, computed once
DHashOfPhoto ==
    [photo \in SinglePhotos \cup GroupPhotos |->
        [alloc \in BOOLEAN |-> DHashBytes(photo.data, alloc)]]

\* what can go wrong around a photo, besides the photo itself: the cache
\* lookup, bot.GetFile or the download, malloc, the cache write, recordMars
Envs == {"ok", "lookup", "download", "nomem", "cachewrite", "record"}

\* the end of getDHash without the return on an error of DHashBytes
cacheDHash_IgnoreHashError(cache, photo, env, h) ==
    [err |-> "", dhash |-> h.out,
     cache |-> IF env = "cachewrite" THEN cache ELSE Put(cache, photo.uid, h.out)]

\* main.go:471-479: the end of getDHash, h the result of minicv.DHashBytes
cacheDHash(cache, photo, env, h) ==
    IF h.err # "" THEN [err |-> h.err, dhash |-> <<>>, cache |-> cache]
    ELSE [err |-> "", dhash |-> h.out,
          cache |-> IF env = "cachewrite" THEN cache ELSE Put(cache, photo.uid, h.out)]

\* getDHash returning the error of a lookup that finds no row
getDHash_MissIsError(cache, photo, env) ==
    IF photo.uid \in DOMAIN cache /\ env # "lookup"
    THEN [err |-> "", dhash |-> cache[photo.uid], cache |-> cache]
    ELSE [err |-> "lookup", dhash |-> <<>>, cache |-> cache]

\* main.go getDHash: [err, dhash, cache] with cache the table fuid_to_dhash
\* after the call
getDHash(cache, photo, env) ==
    IF photo.uid \in DOMAIN cache /\ env # "lookup"
    THEN [err |-> "", dhash |-> cache[photo.uid], cache |-> cache]
    ELSE IF env = "lookup" THEN [err |-> "lookup", dhash |-> <<>>, cache |-> cache]
    ELSE IF env = "download" THEN [err |-> "download", dhash |-> <<>>, cache |-> cache]
    ELSE cacheDHash(cache, photo, env, DHashOfPhoto[photo][env # "nomem"])

\* recordMars as one step whose failure leaves the row it wrote behind
recordMarsTx_DirtyAbort(t, s, g, m, d, fail) ==
    LET look == GetMarsInfo(t, g, d)
        t2 == IncrementMarsInfo(t, g, d, m)
    IN IF fail THEN [res |-> ErrResult("commit"), info |-> t2, stat |-> s]
       ELSE IF look.found /\ skipSighting(look.info, m)
       THEN [res |-> [err |-> "", Skipped |-> TRUE, PrevCount |-> look.info.count,
                      PrevLastMsgID |-> look.info.last_msg_id, Info |-> look.info],
             info |-> t, stat |-> s]
       ELSE [res |-> [err |-> "", Skipped |-> FALSE, PrevCount |-> look.info.count,
                      PrevLastMsgID |-> look.info.last_msg_id, Info |-> t2[<<g, d>>]],
             info |-> t2,
             stat |-> IF needGroupStat(look.info.count) THEN IncrementGroupStat(s, g) ELSE s]

\* recordMars as one step (its transaction is serializable and all or
\* nothing): [res, info, stat] with the two tables after the call
recordMarsTx(t, s, g, m, d, fail) ==
    LET look == GetMarsInfo(t, g, d)
        t2 == IncrementMarsInfo(t, g, d, m)
    IN IF fail THEN [res |-> ErrResult("commit"), info |-> t, stat |-> s]
       ELSE IF look.found /\ skipSighting(look.info, m)
       THEN [res |-> [err |-> "", Skipped |-> TRUE, PrevCount |-> look.info.count,
                      PrevLastMsgID |-> look.info.last_msg_id, Info |-> look.info],
             info |-> t, stat |-> s]
       ELSE [res |-> [err |-> "", Skipped |-> FALSE, PrevCount |-> look.info.count,
                      PrevLastMsgID |-> look.info.last_msg_id, Info |-> t2[<<g, d>>]],
             info |-> t2,
             stat |-> IF needGroupStat(look.info.count) THEN IncrementGroupStat(s, g) ELSE s]

\* the chat of all photo messages
Chat == 1

\* the message with the next message id
NewMsg(mg, photo) == [MessageId |-> 200 + nMsgs, MediaGroupId |-> mg, Photo |-> photo]

\* what recordMars leaves of the store variables when it runs as one step
StoreStep(r) ==
    /\ mars_info' = r.info
    /\ mars_group_stat' = r.stat
    /\ ret' = NoRet
    /\ UNCHANGED <<writer, txInfo, txStat, pc, call, nOps, reported, committed, items>>

\* what a photo handler did with a message in the step just taken: err
\* "hash" is an error of getDHash, "commit" one of recordMars, "seen" the
\* skip of a fingerprint already in unique
Outcome(run, msg, dhash, res) == [run |-> run, msg |-> msg, dhash |-> dhash, res |-> res]

NoOutcome == Outcome(0, [MessageId |-> 0, MediaGroupId |-> "", Photo |-> <<>>], <<>>, NoResult)

\* a SendMessage call: the reply to msg whose text (buildMarsReply,
\* buildGroupedReply) reports prevCount and links prevLastMsgID, with or
\* without the whitelist button (ReplyMarkup)
Reply(run, msg, prevCount, prevLastMsgID, button) ==
    [run |-> run, MessageId |-> msg.MessageId, PrevCount |-> prevCount,
     PrevLastMsgID |-> prevLastMsgID, button |-> button]

\* processSinglePhoto after getDHash returned d, replying to a skipped
\* sighting as well
recordSinglePhoto_ReplySkipped(msg, env, d) ==
    LET r == recordMarsTx(mars_info, mars_group_stat, Chat, msg.MessageId, d.dhash,
                          env = "record")
    IN /\ nMsgs' = nMsgs + 1
       /\ fuid_to_dhash' = d.cache
       /\ IF d.err # ""
          THEN /\ seen' = Outcome(0, msg, <<>>, ErrResult("hash"))
               /\ UNCHANGED <<storeVars, sent>>
          ELSE /\ StoreStep(r)
               /\ seen' = Outcome(0, msg, d.dhash, r.res)
               /\ sent' = IF r.res.err # "" \/ r.res.PrevCount = 0
                          THEN sent
                          ELSE sent \cup {Reply(0, msg, r.res.PrevCount,
                                                r.res.PrevLastMsgID,
                                                r.res.PrevCount > 3)}
       /\ UNCHANGED <<fnVars, backupVars, chatVars, mediaGroups, mediaMu, timers, flush, nRuns, handed, dropped>>

\* main.go:332-361: processSinglePhoto after getDHash returned d
recordSinglePhoto(msg, env, d) ==
    LET r == recordMarsTx(mars_info, mars_group_stat, Chat, msg.MessageId, d.dhash,
                          env = "record")
    IN /\ nMsgs' = nMsgs + 1
       /\ fuid_to_dhash' = d.cache
       /\ IF d.err # ""
          THEN /\ seen' = Outcome(0, msg, <<>>, ErrResult("hash"))
               /\ UNCHANGED <<storeVars, sent>>
          ELSE /\ StoreStep(r)
               /\ seen' = Outcome(0, msg, d.dhash, r.res)
               /\ sent' = IF r.res.err # "" \/ r.res.Skipped \/ r.res.PrevCount = 0
                          THEN sent
                          ELSE sent \cup {Reply(0, msg, r.res.PrevCount,
                                                r.res.PrevLastMsgID,
                                                r.res.PrevCount > 3)}
       /\ UNCHANGED <<fnVars, backupVars, chatVars, mediaGroups, mediaMu, timers, flush, nRuns, handed, dropped>>

\* main.go:325-362 processSinglePhoto, called by handlePhoto for a message
\* without MediaGroupId
processSinglePhoto(photo, env) ==
    /\ nMsgs < MaxMsgs
    /\ recordSinglePhoto(NewMsg("", photo), env, getDHash(fuid_to_dhash, photo, env))

\* a.mediaMu.Lock() taken without waiting for the holder
mediaMuFree_Always == TRUE

\* a.mediaMu.Lock() returns when no goroutine holds the mutex
mediaMuFree == mediaMu = 0

\* a.mediaGroups[id], nil for an absent key
MediaList(id) == IF id \in DOMAIN mediaGroups THEN mediaGroups[id] ELSE <<>>

\* the timer armed by every message
arm_timer_Always(list) == TRUE

\* main.go:372 len(list) == 0
arm_timer(list) == Len(list) = 0

\* the buffer without its limit
buffer_full_Never(list) == FALSE

\* main.go:368 len(list) >= mediaGroupLimit
buffer_full(list) == Len(list) >= mediaGroupLimit

\* enqueueMediaGroup arming a flush only before the first flush has run
enqueueMediaGroup_NoNewTimer(mg, photo) ==
    LET msg == NewMsg(mg, photo)
        list == MediaList(mg)
    IN /\ nMsgs < MaxMsgs
       /\ mediaMuFree
       /\ nMsgs' = nMsgs + 1
       /\ IF buffer_full(list)
          THEN /\ dropped' = dropped \cup {msg.MessageId}
               /\ UNCHANGED <<mediaGroups, timers>>
          ELSE /\ mediaGroups' = Put(mediaGroups, mg, Append(list, msg))
               /\ timers' = IF arm_timer(list) /\ nRuns = 0
                            THEN [timers EXCEPT ![mg] = @ + 1] ELSE timers
               /\ UNCHANGED dropped
       /\ seen' = NoOutcome
       /\ UNCHANGED <<storeVars, fnVars, backupVars, chatVars, fuid_to_dhash, mediaMu, flush, nRuns, sent, handed>>

\* main.go:364-377 enqueueMediaGroup, called by handlePhoto for a message
\* with a MediaGroupId; the mutex is held from the first to the last line
enqueueMediaGroup(mg, photo) ==
    LET msg == NewMsg(mg, photo)
        list == MediaList(mg)
    IN /\ nMsgs < MaxMsgs
       /\ mediaMuFree
       /\ nMsgs' = nMsgs + 1
       /\ IF buffer_full(list)
          THEN /\ dropped' = dropped \cup {msg.MessageId}
               /\ UNCHANGED <<mediaGroups, timers>>
          ELSE /\ mediaGroups' = Put(mediaGroups, mg, Append(list, msg))
               /\ timers' = IF arm_timer(list) THEN [timers EXCEPT ![mg] = @ + 1] ELSE timers
               /\ UNCHANGED dropped
       /\ seen' = NoOutcome
       /\ UNCHANGED <<storeVars, fnVars, backupVars, chatVars, fuid_to_dhash, mediaMu, flush, nRuns, sent, handed>>

\* the goroutine that runs the next flushMediaGroup call
FreeFlusher(w) == flush[w].pc = "idle" /\ \A v \in Flushers : flush[v].pc = "idle" => w <= v

\* main.go:373-375 and 380-381: the timer fires, its goroutine calls
\* flushMediaGroup, takes the mutex and reads msgs := a.mediaGroups[groupID]
flushLock(mg, w) ==
    /\ timers[mg] > 0
    /\ FreeFlusher(w)
    /\ mediaMuFree
    /\ timers' = [timers EXCEPT ![mg] = @ - 1]
    /\ nRuns' = nRuns + 1
    /\ mediaMu' = w
    /\ flush' = [flush EXCEPT ![w] = [NoFlush EXCEPT !.pc = "delete", !.groupID = mg,
                                                     !.run = nRuns + 1,
                                                     !.msgs = MediaList(mg)]]
    /\ seen' = NoOutcome
    /\ UNCHANGED <<storeVars, fnVars, backupVars, chatVars, fuid_to_dhash, mediaGroups, nMsgs, sent, handed, dropped>>

Remove(t, k) == [x \in (DOMAIN t) \ {k} |-> t[x]]

RECURSIVE BagAddAll(_, _)
BagAddAll(b, s) == IF s = <<>> THEN b ELSE BagAddAll(BagAdd(b, Head(s).MessageId), Tail(s))

\* main.go:382-389: delete, Unlock, the return on an empty list and the cut
\* to mediaGroupLimit
flushDelete(w) ==
    LET msgs == flush[w].msgs
    IN /\ flush[w].pc = "delete"
       /\ mediaGroups' = Remove(mediaGroups, flush[w].groupID)
       /\ mediaMu' = 0
       /\ handed' = BagAddAll(handed, msgs)
       /\ flush' = [flush EXCEPT ![w] =
                       IF Len(msgs) = 0 THEN NoFlush
                       ELSE [@ EXCEPT !.pc = "handle", !.i = 1,
                                      !.msgs = Limit(msgs, mediaGroupLimit)]]
       /\ seen' = NoOutcome
       /\ UNCHANGED <<storeVars, fnVars, backupVars, chatVars, fuid_to_dhash, timers, nMsgs, nRuns, sent, dropped>>

\* the fingerprints already in unique do not stop a second recordMars call
seen_in_batch_Never(unique, dhash) == FALSE

\* main.go:413 _, ok := unique[key]
seen_in_batch(unique, dhash) == dhash \in DOMAIN unique

\* the loop body returning from handleMediaGroup at the first error
recordGroupItem_StopOnError(w, env, d) ==
    LET f == flush[w]
        msg == f.msgs[f.i]
        r == recordMarsTx(mars_info, mars_group_stat, Chat, msg.MessageId, d.dhash,
                          env = "record")
    IN /\ fuid_to_dhash' = d.cache
       /\ IF d.err # ""
          THEN /\ seen' = Outcome(f.run, msg, <<>>, ErrResult("hash"))
               /\ flush' = [flush EXCEPT ![w].i = Len(f.msgs) + 1, ![w].failed = @ \cup {f.i}]
               /\ UNCHANGED storeVars
          ELSE IF seen_in_batch(f.unique, d.dhash)
          THEN /\ seen' = Outcome(f.run, msg, d.dhash, ErrResult("seen"))
               /\ flush' = [flush EXCEPT ![w].i = @ + 1]
               /\ UNCHANGED storeVars
          ELSE /\ StoreStep(r)
               /\ seen' = Outcome(f.run, msg, d.dhash, r.res)
               /\ flush' = [flush EXCEPT
                              ![w].i = IF r.res.err # "" THEN Len(f.msgs) + 1 ELSE @ + 1,
                              ![w].failed = IF r.res.err # "" THEN @ \cup {f.i} ELSE @,
                              ![w].unique = IF r.res.err # "" THEN @
                                            ELSE Put(@, d.dhash, [msg |-> msg, res |-> r.res])]
       /\ UNCHANGED <<fnVars, backupVars, chatVars, mediaGroups, mediaMu, timers, nMsgs, nRuns, sent, handed, dropped>>

\* main.go:408-425: one iteration of the loop over msgs after getDHash
\* returned d
recordGroupItem(w, env, d) ==
    LET f == flush[w]
        msg == f.msgs[f.i]
        r == recordMarsTx(mars_info, mars_group_stat, Chat, msg.MessageId, d.dhash,
                          env = "record")
    IN /\ fuid_to_dhash' = d.cache
       /\ IF d.err # ""
          THEN /\ seen' = Outcome(f.run, msg, <<>>, ErrResult("hash"))
               /\ flush' = [flush EXCEPT ![w].i = @ + 1, ![w].failed = @ \cup {f.i}]
               /\ UNCHANGED storeVars
          ELSE IF seen_in_batch(f.unique, d.dhash)
          THEN /\ seen' = Outcome(f.run, msg, d.dhash, ErrResult("seen"))
               /\ flush' = [flush EXCEPT ![w].i = @ + 1]
               /\ UNCHANGED storeVars
          ELSE /\ StoreStep(r)
               /\ seen' = Outcome(f.run, msg, d.dhash, r.res)
               /\ flush' = [flush EXCEPT
                              ![w].i = @ + 1,
                              ![w].failed = IF r.res.err # "" THEN @ \cup {f.i} ELSE @,
                              ![w].unique = IF r.res.err # "" THEN @
                                            ELSE Put(@, d.dhash, [msg |-> msg, res |-> r.res])]
       /\ UNCHANGED <<fnVars, backupVars, chatVars, mediaGroups, mediaMu, timers, nMsgs, nRuns, sent, handed, dropped>>

\* main.go:403-425: one iteration of the loop over msgs
handleMediaGroupItem(w, env) ==
    /\ flush[w].pc = "handle"
    /\ flush[w].i <= Len(flush[w].msgs)
    /\ recordGroupItem(w, env, getDHash(fuid_to_dhash, flush[w].msgs[flush[w].i].Photo, env))

\* every item with an outcome can become the reply's subject
Eligible_All(unique) == DOMAIN unique

\* main.go:429 the items that can become the reply's subject
Eligible(unique) ==
    {k \in DOMAIN unique : ~unique[k].res.Skipped /\ unique[k].res.PrevCount # 0}

\* the first item of the buffer among those with the largest PrevCount
BestChoices_Earliest(unique) ==
    {k \in Eligible(unique) :
        \A j \in Eligible(unique) :
            \/ unique[j].res.PrevCount < unique[k].res.PrevCount
            \/ /\ unique[j].res.PrevCount = unique[k].res.PrevCount
               /\ unique[j].msg.MessageId >= unique[k].msg.MessageId}

\* main.go:427-435: range over the map unique keeps the first item met with
\* the largest PrevCount; Go does not fix the order of a range over a map
BestChoices(unique) ==
    {k \in Eligible(unique) :
        \A j \in Eligible(unique) : unique[j].res.PrevCount <= unique[k].res.PrevCount}

\* main.go:427-445: the choice of best and the reply, after the loop
handleMediaGroupReply(w) ==
    LET f == flush[w]
    IN /\ f.pc = "handle"
       /\ f.i > Len(f.msgs)
       /\ IF BestChoices(f.unique) = {}
          THEN UNCHANGED sent
          ELSE \E best \in BestChoices(f.unique) :
                  sent' = sent \cup {Reply(f.run, f.unique[best].msg,
                                           f.unique[best].res.PrevCount,
                                           f.unique[best].res.PrevLastMsgID, FALSE)}
       /\ flush' = [flush EXCEPT ![w] = NoFlush]
       /\ seen' = NoOutcome
       /\ UNCHANGED <<storeVars, fnVars, backupVars, chatVars, fuid_to_dhash, mediaGroups, mediaMu, timers, nMsgs,
                      nRuns, handed, dropped>>

\* the fingerprints of the photos that have one
HashOf(photo) == DHashOfPhoto[photo][TRUE].out

\* the tables of a chat in which photos A and B were each sighted once
\* before the process started
SeenOnce ==
    [k \in {<<Chat, HashOf(PhotoA)>>, <<Chat, HashOf(PhotoB)>>} |->
        [count |-> 1, last_msg_id |-> IF k[2] = HashOf(PhotoA) THEN 101 ELSE 102,
         in_whitelist |-> 0]]

\* the process starts on a new database or on that of an earlier run
InitMedia ==
    /\ mars_info \in {EmptyTable, SeenOnce}
    /\ mars_group_stat = IF mars_info = EmptyTable THEN EmptyTable ELSE Put(EmptyTable, Chat, 2)
    /\ writer = 0
    /\ txInfo = EmptyTable
    /\ txStat = EmptyTable
    /\ pc = [p \in Procs |-> "idle"]
    /\ call = [p \in Procs |-> NoCall]
    /\ ret = NoRet
    /\ nOps = 0
    /\ reported = EmptyTable
    /\ committed = {}
    /\ items = NoItems
    /\ FnIdle
    /\ BackupIdle
    /\ ChatIdle
    /\ MediaIdle

\* /add_whitelist in reply to a photo in the chat
addToWhitelist(photo) ==
    /\ updateWhitelistForPhoto(Chat, HashOf(photo), TRUE)
    /\ seen' = NoOutcome
    /\ UNCHANGED <<fnVars, backupVars, chatVars, fuid_to_dhash, mediaGroups, mediaMu, timers, flush, nMsgs, nRuns,
                   sent, handed, dropped>>

NextMedia ==
    \/ \E mg \in MediaGroupIds, photo \in GroupPhotos : enqueueMediaGroup(mg, photo)
    \/ \E mg \in MediaGroupIds, w \in Flushers : flushLock(mg, w)
    \/ \E w \in Flushers : flushDelete(w)
    \/ \E w \in Flushers, env \in Envs : handleMediaGroupItem(w, env)
    \/ \E w \in Flushers : handleMediaGroupReply(w)
    \/ addToWhitelist(PhotoA)

SpecMedia == InitMedia /\ [][NextMedia]_vars

(***************************************************************************)
(* Properties of the media-group buffer under SpecMedia.                   *)
(***************************************************************************)
\* the step in which flusher w ends its run after the loop over msgs
ReplyStep(w) == flush[w].pc = "handle" /\ flush[w].i > Len(flush[w].msgs) /\ flush'[w].pc = "idle"

\* the step in which flusher w ends its run on an empty buffer
EmptyStep(w) == flush[w].pc = "delete" /\ Len(flush[w].msgs) = 0 /\ flush'[w].pc = "idle"

AllSkipped(unique) == \A k \in DOMAIN unique : unique[k].res.Skipped

RepliesOf(run) == {s \in sent : s.run = run}

\* C14: a flush run sends at most one reply, and the step that ends a run
\* sends none when the run took an empty buffer or when every outcome of the
\* run is Skipped
C14_OneReplyPerFlush ==
    /\ [](\A run \in 1..nRuns : Cardinality(RepliesOf(run)) <= 1)
    /\ [][\A w \in Flushers :
            /\ EmptyStep(w) => sent' = sent
            /\ (ReplyStep(w) /\ AllSkipped(flush[w].unique)) => sent' = sent]_vars

\* a run has gone through all its items, has an outcome, and every outcome
\* is Skipped, while an earlier run has sent its reply
C14_Witness ==
    \E w \in Flushers :
        /\ flush[w].pc = "handle"
        /\ flush[w].i > Len(flush[w].msgs)
        /\ DOMAIN flush[w].unique # {}
        /\ AllSkipped(flush[w].unique)
        /\ \E run \in 1..nRuns : Cardinality(RepliesOf(run)) = 1

\* the ids of the messages enqueueMediaGroup appended to a buffer
Accepted == {m \in 200..(199 + nMsgs) : m \notin dropped}

\* the ids of the messages in the buffer of a media group
Buffered(mg) == {MediaList(mg)[i].MessageId : i \in 1..Len(MediaList(mg))}

InBuffer(m) == \E mg \in MediaGroupIds : m \in Buffered(mg)

\* the number of flush runs that took message m
TimesHanded(m) == IF m \in DOMAIN handed THEN handed[m] ELSE 0

\* C15: arrivals and the remove-on-flush exclude each other (while a flush
\* holds the mutex between its read and its delete, no other step changes
\* the buffers), and every accepted item is either still buffered and taken
\* by no flush, or out of the buffer and taken by exactly one flush
C15_ExactlyOneFlush ==
    /\ [](\A m \in Accepted :
            \/ InBuffer(m) /\ TimesHanded(m) = 0
            \/ ~InBuffer(m) /\ TimesHanded(m) = 1)
    /\ [][mediaMu # 0 => (mediaGroups' = mediaGroups \/ mediaMu' = 0)]_vars

\* two flush runs overlap, each has taken an item, and a third item waits in
\* a new buffer
C15_Witness ==
    /\ \A w \in Flushers : flush[w].pc = "handle" /\ Len(flush[w].msgs) >= 1
    /\ \E m \in Accepted : InBuffer(m)
    /\ \E m \in Accepted : TimesHanded(m) = 1

\* the photo of msg has fingerprint k
Carries(msg, k) ==
    /\ DHashOfPhoto[msg.Photo][TRUE].err = ""
    /\ DHashOfPhoto[msg.Photo][TRUE].out = k

\* the positions, among those the loop of flusher w has passed, of the items
\* that carry fingerprint k
Carriers(w, k) == {j \in 1..(flush[w].i - 1) : Carries(flush[w].msgs[j], k)}

Earliest(S) == CHOOSE j \in S : \A x \in S : j <= x

\* the count stored for fingerprint d in table t
CountOf(t, d) == GetMarsInfo(t, Chat, d).info.count

\* a step of the loop of flusher w raises the count of a fingerprint only
\* when the fingerprint has no outcome yet in this run, and by 1
OncePerFingerprint(w) ==
    (flush[w].pc = "handle" /\ flush'[w].i = flush[w].i + 1) =>
        \A d \in DOMAIN mars_info' :
            CountOf(mars_info', d) # CountOf(mars_info, d) =>
                /\ CountOf(mars_info', d) = CountOf(mars_info, d) + 1
                /\ d \notin DOMAIN flush[w].unique
                /\ d \in DOMAIN flush'[w].unique

\* the reply of a run is a reply to an item that holds an outcome
ReplyToOutcomeHolder(w) ==
    ReplyStep(w) =>
        \A s \in sent' \ sent :
            \E k \in DOMAIN flush[w].unique : flush[w].unique[k].msg.MessageId = s.MessageId

C13_EarliestOnTie ==
    [][\A w \in Flushers :
          ReplyStep(w) =>
              \A s \in sent' \ sent :
                  \E k \in BestChoices_Earliest(flush[w].unique) :
                      flush[w].unique[k].msg.MessageId = s.MessageId]_vars

\* the photos and the failures of the behaviours in which the timers are
\* followed: a photo with a fingerprint and one without, a run of recordMars
\* that commits and one that fails
TimerPhotos == {PhotoA, PhotoEmpty}
TimerEnvs == {"ok", "record"}

NextTimer ==
    \/ \E mg \in MediaGroupIds, photo \in TimerPhotos : enqueueMediaGroup(mg, photo)
    \/ \E mg \in MediaGroupIds, w \in Flushers : flushLock(mg, w)
    \/ \E w \in Flushers : flushDelete(w)
    \/ \E w \in Flushers, env \in TimerEnvs : handleMediaGroupItem(w, env)
    \/ \E w \in Flushers : handleMediaGroupReply(w)

\* timers fire, the goroutines of the flush runs are scheduled and the
\* process keeps running
SpecMediaFair ==
    /\ InitMedia
    /\ [][NextTimer]_vars
    /\ WF_vars(\E mg \in MediaGroupIds, w \in Flushers : flushLock(mg, w))
    /\ WF_vars(\E w \in Flushers : flushDelete(w))
    /\ WF_vars(\E w \in Flushers, env \in TimerEnvs : handleMediaGroupItem(w, env))
    /\ WF_vars(\E w \in Flushers : handleMediaGroupReply(w))

\* the flushes of media group mg that have not yet removed its buffer: the
\* armed timers and the runs between their Lock and their delete
PendingFlushes(mg) ==
    timers[mg] + Cardinality({w \in Flushers : flush[w].pc = "delete" /\ flush[w].groupID = mg})

\* C16: a media group has exactly one pending flush while its buffer is not
\* empty and none otherwise; a timer is armed only by the arrival that
\* creates the buffer; and every buffered item is eventually taken by a
\* flush that removes it from the buffer
C16_OnePendingFlush ==
    /\ [](\A mg \in MediaGroupIds :
            PendingFlushes(mg) = IF MediaList(mg) # <<>> THEN 1 ELSE 0)
    /\ [][\A mg \in MediaGroupIds :
            timers'[mg] > timers[mg] => MediaList(mg) = <<>> /\ mg \in DOMAIN mediaGroups']_vars
    /\ \A m \in 200..(199 + MaxMsgs) :
            InBuffer(m) ~> (~InBuffer(m) /\ TimesHanded(m) = 1)

\* a buffer that two arrivals filled has been flushed and removed, and a
\* later arrival has created the buffer again with its own timer
C16_Witness ==
    /\ \E m \in Accepted : TimesHanded(m) = 1 /\ TimesHanded(m + 1) = 1 /\ InBuffer(m + 2)
    /\ nRuns = 1
    /\ timers["album"] = 1

(***************************************************************************)
(* A burst: a media group of which nine messages are already buffered.    *)
(***************************************************************************)
\* the buffer after the arrival of messages 191..199 of the media group
NineBuffered ==
    [i \in 1..(mediaGroupLimit - 1) |->
        [MessageId |-> 190 + i, MediaGroupId |-> "album",
         Photo |-> IF i % 2 = 1 THEN PhotoA ELSE PhotoB]]

InitBurst ==
    /\ StoreIdle
    /\ FnIdle
    /\ BackupIdle
    /\ ChatIdle
    /\ fuid_to_dhash = EmptyTable
    /\ mediaGroups = Put(EmptyTable, "album", NineBuffered)
    /\ mediaMu = 0
    /\ timers = [id \in MediaGroupIds |-> 1]
    /\ flush = [w \in Flushers |-> NoFlush]
    /\ nMsgs = 0
    /\ nRuns = 0
    /\ sent = {}
    /\ handed = EmptyTable
    /\ dropped = {}
    /\ seen = NoOutcome

\* the photos of the arrivals: one with a fingerprint and one without
BurstPhotos == {PhotoB, PhotoEmpty}

NextBurst ==
    \/ \E mg \in MediaGroupIds, photo \in BurstPhotos : enqueueMediaGroup(mg, photo)
    \/ \E mg \in MediaGroupIds, w \in Flushers : flushLock(mg, w)
    \/ \E w \in Flushers : flushDelete(w)
    \/ \E w \in Flushers : handleMediaGroupItem(w, "ok")
    \/ \E w \in Flushers : handleMediaGroupReply(w)

SpecBurst == InitBurst /\ [][NextBurst]_vars

\* the step in which a message arrives while the buffer of the media group
\* holds mediaGroupLimit messages
ArrivalAtFull == nMsgs' = nMsgs + 1 /\ Len(MediaList("album")) >= mediaGroupLimit

\* the statement of C11 as the specification words it: of the messages of a
\* media group only the first ten arrivals are ever retained and processed
C11_Original ==
    /\ [](\A mg \in MediaGroupIds : Len(MediaList(mg)) <= mediaGroupLimit)
    /\ [](\A m \in 201..(199 + MaxMsgs) :
            ~InBuffer(m) /\ TimesHanded(m) = 0 /\ seen.msg.MessageId # m)

\* C11: a message that arrives while the buffer of its media group holds ten
\* messages is dropped (the buffer and the timers stay as they are), is never
\* taken by a flush and is never passed to recordMars; no buffer and no batch
\* holds more than ten messages
C11_DroppedAtFull ==
    /\ [](\A mg \in MediaGroupIds : Len(MediaList(mg)) <= mediaGroupLimit)
    /\ [](\A w \in Flushers : Len(flush[w].msgs) <= mediaGroupLimit)
    /\ [](\A m \in dropped :
            ~InBuffer(m) /\ TimesHanded(m) = 0 /\ seen.msg.MessageId # m)
    /\ [][ArrivalAtFull =>
            /\ mediaGroups' = mediaGroups
            /\ timers' = timers
            /\ dropped' = dropped \cup {200 + nMsgs}]_vars

\* the eleventh arrival was dropped and the batch of the first ten has been
\* processed to its end
C11_Witness ==
    /\ 201 \in dropped
    /\ \E w \in Flushers :
          /\ Len(flush[w].msgs) = mediaGroupLimit
          /\ flush[w].i > mediaGroupLimit
          /\ flush[w].msgs[mediaGroupLimit].MessageId = 200

(***************************************************************************)
(* Photos that cannot be fingerprinted, in single messages and in media    *)
(* groups.                                                                 *)
(***************************************************************************)
\* the photos of the media-group messages: one with a fingerprint, two without
BatchPhotos == {PhotoB, PhotoUndecodable, PhotoBadStride}

\* malloc succeeds or fails during the hash of a media-group item
BatchEnvs == {"ok", "nomem"}

NextPhoto ==
    \/ \E photo \in SinglePhotos, env \in Envs : processSinglePhoto(photo, env)
    \/ \E mg \in MediaGroupIds, photo \in BatchPhotos : enqueueMediaGroup(mg, photo)
    \/ \E mg \in MediaGroupIds, w \in Flushers : flushLock(mg, w)
    \/ \E w \in Flushers : flushDelete(w)
    \/ \E w \in Flushers, env \in BatchEnvs : handleMediaGroupItem(w, env)
    \/ \E w \in Flushers : handleMediaGroupReply(w)

SpecPhoto == InitMedia /\ [][NextPhoto]_vars

\* C20: DHashBytes returns an error for an empty buffer, undecodable bytes,
\* a width or height of 0 or less, a width above the ceiling and a stride
\* below the width; the step of a photo handler on such a photo ends with
\* the hash error, sends nothing and leaves fuid_to_dhash, mars_info and
\* mars_group_stat as they were
C20_UnhashablePhotoSkipped ==
    [][(seen'.msg.MessageId # 0 /\ seen'.msg.Photo \in BadPhotos) =>
          /\ \A alloc \in BOOLEAN : DHashBytes(seen'.msg.Photo.data, alloc).err # ""
          /\ seen'.res.err = "hash"
          /\ fuid_to_dhash' = fuid_to_dhash
          /\ mars_info' = mars_info
          /\ mars_group_stat' = mars_group_stat
          /\ sent' = sent]_vars

\* a flush run has just passed over an item whose stride is below its width,
\* after an item of the same run was recorded and cached
C20_Witness ==
    /\ seen.run # 0
    /\ seen.msg.Photo = PhotoBadStride
    /\ seen.res.err = "hash"
    /\ \E w \in Flushers : flush[w].run = seen.run /\ DOMAIN flush[w].unique # {}
    /\ DOMAIN fuid_to_dhash # {}

\* a single message with each of the photos without a fingerprint has been
\* handled while the tables hold rows
C20_SingleSkipped(photo) ==
    /\ seen.run = 0
    /\ seen.msg.MessageId # 0
    /\ seen.msg.Photo = photo
    /\ seen.res.err = "hash"
    /\ DOMAIN mars_info # {}

(***************************************************************************)
(* The fuid_to_dhash cache in front of DHashBytes.                         *)
(***************************************************************************)
\* the photo has a fingerprint, whether malloc succeeds or not
Hashable(photo) == \A alloc \in BOOLEAN : DHashOfPhoto[photo][alloc].err = ""

\* the outcome of the step is a sighting of message 200 + nMsgs with
\* fingerprint d that recordMars was called for
SightedWith(d) ==
    /\ seen'.msg.MessageId = 200 + nMsgs
    /\ seen'.dhash = d
    /\ seen'.res.err \in {"", "commit"}

\* the step touched no table and ended with the error of getDHash
FailedUntouched ==
    /\ seen'.res.err = "hash"
    /\ fuid_to_dhash' = fuid_to_dhash
    /\ mars_info' = mars_info
    /\ mars_group_stat' = mars_group_stat

\* C21: on a cache hit the stored fingerprint is used and nothing is
\* computed (a download or malloc that would fail does not matter); on a miss
\* the fingerprint is computed, used and written to the cache; when that
\* write fails the computed fingerprint is still used and the sighting goes
\* on; a lookup error other than absence ends the sighting with no table
\* touched
C21_ReadThrough ==
    [][\A photo \in SinglePhotos, env \in Envs :
          processSinglePhoto(photo, env) =>
              /\ (photo.uid \in DOMAIN fuid_to_dhash /\ env # "lookup") =>
                    SightedWith(fuid_to_dhash[photo.uid]) /\ fuid_to_dhash' = fuid_to_dhash
              /\ (photo.uid \notin DOMAIN fuid_to_dhash /\ Hashable(photo) /\ env = "ok") =>
                    /\ SightedWith(DHashBytes(photo.data, TRUE).out)
                    /\ fuid_to_dhash' = Put(fuid_to_dhash, photo.uid,
                                            DHashBytes(photo.data, TRUE).out)
              /\ (photo.uid \notin DOMAIN fuid_to_dhash /\ Hashable(photo)
                    /\ env = "cachewrite") =>
                    /\ SightedWith(DHashBytes(photo.data, TRUE).out)
                    /\ seen'.res.err = ""
                    /\ fuid_to_dhash' = fuid_to_dhash
              /\ env = "lookup" => FailedUntouched]_vars

\* the sighting of photo B was recorded although its fingerprint is not in
\* the cache, and the fingerprint of photo A is cached
C21_Witness ==
    /\ seen.run = 0
    /\ seen.msg.MessageId # 0
    /\ seen.msg.Photo = PhotoB
    /\ seen.res.err = ""
    /\ PhotoB.uid \notin DOMAIN fuid_to_dhash
    /\ PhotoA.uid \in DOMAIN fuid_to_dhash
    /\ GetMarsInfo(mars_info, Chat, HashOf(PhotoB)).info.last_msg_id = seen.msg.MessageId

(***************************************************************************)
(* Properties of the stored tables under Spec.                             *)
(***************************************************************************)
\* what SetMarsWhitelist with flag leaves of the tables for key k
WhitelistSetEffect(k, flag) ==
    /\ DOMAIN mars_info' = DOMAIN mars_info \cup {k}
    /\ \A x \in DOMAIN mars_info : x # k => mars_info'[x] = mars_info[x]
    /\ mars_info'[k] =
          IF k \in DOMAIN mars_info
          THEN [count |-> mars_info[k].count, last_msg_id |-> mars_info[k].last_msg_id,
                in_whitelist |-> flag]
          ELSE [count |-> 0, last_msg_id |-> 0, in_whitelist |-> flag]
    /\ mars_group_stat' = mars_group_stat

\* C22: the whitelist statement, run by the callback or by the commands,
\* creates an absent row with count 0, last_msg_id 0 and the flag, changes
\* only in_whitelist of an existing row, and changes no other row and no row
\* of mars_group_stat
C22_WhitelistSetFrame ==
    [][\A k \in Keys :
          /\ handleAddPicWhitelistByCallback(k[1], k[2]) => WhitelistSetEffect(k, 1)
          /\ \A w \in BOOLEAN :
                updateWhitelistForPhoto(k[1], k[2], w) =>
                    WhitelistSetEffect(k, IF w THEN 1 ELSE 0)]_vars

\* a sighted row has been put on the whitelist beside a second sighted row,
\* and a row of another key was created by the whitelist statement
C22_Witness ==
    \E k1, k2, k3 \in DOMAIN mars_info :
        /\ k1 # k2
        /\ mars_info[k1].count >= 1 /\ mars_info[k1].last_msg_id # 0
        /\ mars_info[k1].in_whitelist = 1
        /\ mars_info[k2].count >= 1 /\ mars_info[k2].in_whitelist = 0
        /\ mars_info[k3] = [count |-> 0, last_msg_id |-> 0, in_whitelist |-> 1]

(***************************************************************************)
(* The whitelist button: processSinglePhoto puts "wl:" and the hex text of *)
(* the fingerprint into the button, handleAddPicWhitelistByCallback takes  *)
(* the callback data the client sends back.  Text is a sequence of         *)
(* one-character strings.                                                  *)
(***************************************************************************)
HexDigits == <<"0", "1", "2", "3", "4", "5", "6", "7", "8", "9",
               "a", "b", "c", "d", "e", "f">>

\* encoding/hex EncodeToString
RECURSIVE EncodeToString(_)
EncodeToString(bytes) ==
    IF bytes = <<>> THEN <<>>
    ELSE <<HexDigits[(Head(bytes) \div 16) + 1], HexDigits[(Head(bytes) % 16) + 1]>>
         \o EncodeToString(Tail(bytes))

\* encoding/hex fromHexChar: the value of a digit, -1 for any other character
fromHexChar(c) ==
    IF \E i \in 1..16 : HexDigits[i] = c
    THEN (CHOOSE i \in 1..16 : HexDigits[i] = c) - 1
    ELSE IF c \in {"A", "B", "C", "D", "E", "F"}
    THEN CASE c = "A" -> 10 [] c = "B" -> 11 [] c = "C" -> 12
           [] c = "D" -> 13 [] c = "E" -> 14 [] c = "F" -> 15
    ELSE -1

\* encoding/hex DecodeString: [err, bytes]; an odd length or a character
\* that is no hex digit is an error
RECURSIVE DecodeString(_)
DecodeString(text) ==
    IF text = <<>> THEN [err |-> FALSE, bytes |-> <<>>]
    ELSE IF Len(text) = 1 \/ fromHexChar(text[1]) < 0 \/ fromHexChar(text[2]) < 0
    THEN [err |-> TRUE, bytes |-> <<>>]
    ELSE LET rest == DecodeString(SubSeq(text, 3, Len(text)))
         IN [err |-> rest.err,
             bytes |-> IF rest.err THEN <<>>
                       ELSE <<fromHexChar(text[1]) * 16 + fromHexChar(text[2])>> \o rest.bytes]

\* main.go:347 the callback data of the whitelist button
ButtonData(dhash) == <<"w", "l", ":">> \o EncodeToString(dhash)

\* callback data that begins with "wl:": that of the buttons of photos A and
\* B, and data no button of the bot carries
CallbackData ==
    {ButtonData(HashOf(PhotoA)), ButtonData(HashOf(PhotoB)),
     <<"w", "l", ":">>, <<"w", "l", ":", "0", "0">>, <<"w", "l", ":", "0", "g">>,
     <<"w", "l", ":", "F", "F", "0">>,
     ButtonData(HashOf(PhotoB) \o <<7>>)}

\* strings.SplitN(data, ":", 2)
RECURSIVE SplitN2(_, _)
SplitN2(before, text) ==
    IF text = <<>> THEN <<before>>
    ELSE IF Head(text) = ":" THEN <<before, Tail(text)>>
    ELSE SplitN2(Append(before, Head(text)), Tail(text))

\* main.go:619-641 handleAddPicWhitelistByCallback for callback data
handleCallbackData(g, data) ==
    LET parts == SplitN2(<<>>, data)
    IN /\ Len(parts) = 2
       /\ ~DecodeString(parts[2]).err
       /\ handleAddPicWhitelistByCallback(g, DecodeString(parts[2]).bytes)
       /\ seen' = NoOutcome
       /\ UNCHANGED <<fnVars, backupVars, chatVars, fuid_to_dhash, mediaGroups, mediaMu, timers, flush, nMsgs,
                      nRuns, sent, handed, dropped>>

NextCallback ==
    \/ \E photo \in SinglePhotos, env \in Envs : processSinglePhoto(photo, env)
    \/ \E photo \in {PhotoA, PhotoB} : addToWhitelist(photo)
    \/ \E data \in CallbackData : handleCallbackData(Chat, data)

SpecCallback == InitMedia /\ [][NextCallback]_vars

\* C23: every fingerprint stored in mars_info and in fuid_to_dhash is 8
\* bytes long
C23_EightBytes ==
    /\ \A k \in DOMAIN mars_info : Len(k[2]) = dhashLen
    /\ \A uid \in DOMAIN fuid_to_dhash : Len(fuid_to_dhash[uid]) = dhashLen

\* the fingerprints written by sightings and by the whitelist command are 8
\* bytes long: the rows of keys no callback wrote
C23_OtherWritersEightBytes ==
    /\ \A k \in DOMAIN mars_info : mars_info[k].count >= 1 => Len(k[2]) = dhashLen
    /\ \A uid \in DOMAIN fuid_to_dhash : Len(fuid_to_dhash[uid]) = dhashLen

\* the callback data of a button of the bot gives back the fingerprint
ButtonRoundTrip ==
    \A photo \in {PhotoA, PhotoB} :
        /\ ~DecodeString(SplitN2(<<>>, ButtonData(HashOf(photo)))[2]).err
        /\ DecodeString(SplitN2(<<>>, ButtonData(HashOf(photo)))[2]).bytes = HashOf(photo)

\* C24: no step deletes a row of mars_info, lowers the count of a row or
\* lowers the image_count of a group, and count, last_msg_id and image_count
\* are never negative
C24_Monotonic ==
    /\ [](/\ \A k \in DOMAIN mars_info : mars_info[k].count >= 0 /\ mars_info[k].last_msg_id >= 0
          /\ \A g \in DOMAIN mars_group_stat : mars_group_stat[g] >= 0)
    /\ [][/\ \A k \in DOMAIN mars_info :
                k \in DOMAIN mars_info' /\ mars_info'[k].count >= mars_info[k].count
          /\ \A g \in DOMAIN mars_group_stat :
                g \in DOMAIN mars_group_stat' /\ mars_group_stat'[g] >= mars_group_stat[g]]_vars

\* a call of recordMars has just failed and rolled back in a group that has
\* two sighted keys, one of them sighted twice
C24_Witness ==
    /\ ret.proc # 0
    /\ ret.res.err # ""
    /\ GetGroupMarsCount(mars_group_stat, ret.groupID) = 2
    /\ \E k \in RowsOf(mars_info, ret.groupID) : mars_info[k].count = 2

(***************************************************************************)
(* recordMars applied one call after another: each step is a whole call,   *)
(* or a whole whitelist statement.                                         *)
(***************************************************************************)
\* one call of recordMars that looks its row up by similarity: a stored
\* fingerprint of the group within the threshold stands for the sighted one
sighting_Similar(g, m, d, fail) ==
    LET near == {k \in RowsOf(mars_info, g) :
                    hammingDistance(k[2], d).dist <= similarHDThreshold}
        d2 == IF near = {} THEN d ELSE (CHOOSE k \in near : TRUE)[2]
        r == recordMarsTx(mars_info, mars_group_stat, g, m, d2, fail)
    IN /\ nOps < MaxOps
       /\ nOps' = nOps + 1
       /\ mars_info' = r.info
       /\ mars_group_stat' = r.stat
       /\ ret' = [proc |-> 1, groupID |-> g, msgID |-> m, dhash |-> d, res |-> r.res]
       /\ UNCHANGED <<writer, txInfo, txStat, pc, call, reported, committed, items>>

\* main.go:502-543: one call of recordMars from start to return
sighting(g, m, d, fail) ==
    LET r == recordMarsTx(mars_info, mars_group_stat, g, m, d, fail)
    IN /\ nOps < MaxOps
       /\ nOps' = nOps + 1
       /\ mars_info' = r.info
       /\ mars_group_stat' = r.stat
       /\ ret' = [proc |-> 1, groupID |-> g, msgID |-> m, dhash |-> d, res |-> r.res]
       /\ UNCHANGED <<writer, txInfo, txStat, pc, call, reported, committed, items>>

NextSeq ==
    \/ \E k \in Keys, m \in MsgIds, fail \in BOOLEAN :
          sighting(k[1], m, k[2], fail) /\ UNCHANGED <<fnVars, backupVars, chatVars, mediaVars>>
    \/ \E k \in Keys, flag \in {0, 1} :
          WhitelistWrite(k[1], k[2], flag) /\ UNCHANGED <<fnVars, backupVars, chatVars, mediaVars>>

SpecSeq == Init /\ [][NextSeq]_vars

\* the sighting (g, d, m) is the call that returned in the last step
JustApplied(g, m, d) ==
    ret.proc # 0 /\ ret.groupID = g /\ ret.msgID = m /\ ret.dhash = d

\* C25: a sighting applied right after the same sighting returned without an
\* error changes neither table and is Skipped, so twice is the same as once;
\* an attempt that fails changes neither table, and the same sighting applied
\* right after it gives the tables and the outcome of a first attempt
C25_RetryIsSafe ==
    [][\A k \in Keys, m \in MsgIds, fail \in BOOLEAN :
          sighting(k[1], m, k[2], fail) =>
             LET again == recordMarsTx(mars_info', mars_group_stat', k[1], m, k[2], FALSE)
                 first == recordMarsTx(mars_info, mars_group_stat, k[1], m, k[2], FALSE)
             IN /\ fail => /\ mars_info' = mars_info
                           /\ mars_group_stat' = mars_group_stat
                           /\ ret'.res.err # ""
                           /\ again = first
                /\ ~fail => /\ again.info = mars_info'
                            /\ again.stat = mars_group_stat'
                            /\ again.res.err = ""
                            /\ again.res.Skipped
                /\ (~fail /\ JustApplied(k[1], m, k[2]) /\ ret.res.err = "") =>
                            /\ mars_info' = mars_info
                            /\ mars_group_stat' = mars_group_stat
                            /\ ret'.res.Skipped
                /\ (~fail /\ JustApplied(k[1], m, k[2]) /\ ret.res.err # "") =>
                            /\ mars_info' = first.info
                            /\ mars_group_stat' = first.stat
                            /\ ret'.res = first.res]_vars

\* the retry of a sighting that was counted has just been skipped: the row is
\* not on the whitelist and already carries the message id of the call
C25_Witness ==
    /\ RetOk
    /\ ret.res.Skipped
    /\ ret.res.Info.in_whitelist = 0
    /\ ret.res.PrevLastMsgID = ret.msgID
    /\ ret.res.PrevCount = 2
    /\ GetGroupMarsCount(mars_group_stat, ret.groupID) = 2

\* the rows and the image_count of the groups other than g are the same in the
\* tables (t1, s1) and (t2, s2)
OtherGroupsSame(g, t1, s1, t2, s2) ==
    /\ \A k \in (DOMAIN t1) \cup (DOMAIN t2) :
          k[1] # g => k \in DOMAIN t1 /\ k \in DOMAIN t2 /\ t1[k] = t2[k]
    /\ \A h \in (DOMAIN s1) \cup (DOMAIN s2) :
          h # g => h \in DOMAIN s1 /\ h \in DOMAIN s2 /\ s1[h] = s2[h]

\* C26: for a sighting a that is applied and any sighting b of another
\* (group_id, fingerprint), a then b and b then a end in the same tables and
\* give a and b the same outcomes, and a changes no row and no image_count of
\* a group other than its own
C26_DifferentKeysCommute ==
    [][\A ka \in Keys, ma \in MsgIds :
          sighting(ka[1], ma, ka[2], FALSE) =>
             /\ OtherGroupsSame(ka[1], mars_info, mars_group_stat,
                                mars_info', mars_group_stat')
             /\ \A kb \in Keys \ {ka}, mb \in MsgIds :
                   LET ab == recordMarsTx(mars_info', mars_group_stat', kb[1], mb, kb[2], FALSE)
                       b  == recordMarsTx(mars_info, mars_group_stat, kb[1], mb, kb[2], FALSE)
                       ba == recordMarsTx(b.info, b.stat, ka[1], ma, ka[2], FALSE)
                   IN /\ ab.info = ba.info
                      /\ ab.stat = ba.stat
                      /\ ab.res = b.res
                      /\ ret'.res = ba.res]_vars

\* a first sighting in group 2 has just been counted while group 1 holds two
\* sighted fingerprints
C26_Witness ==
    /\ RetOk
    /\ ~ret.res.Skipped
    /\ ret.groupID = 2
    /\ ret.res.PrevCount = 0
    /\ GetGroupMarsCount(mars_group_stat, 1) = 2
    /\ GetGroupMarsCount(mars_group_stat, 2) = 1

(***************************************************************************)
(* StartBackupThread (s3backup.go).  backupStopCh is a package variable    *)
(* read and written without a lock, so the calls of different goroutines   *)
(* interleave between its statements.                                      *)
(***************************************************************************)
MaxStarts == 2

InitBackup ==
    /\ StoreIdle
    /\ FnIdle
    /\ MediaIdle
    /\ NoBackup \in BOOLEAN
    /\ backupStopCh = 0
    /\ backupPc = [c \in Callers |-> "idle"]
    /\ backupCalls = [c \in Callers |-> 0]
    /\ backupThreads = 0
    /\ ChatIdle

\* s3backup.go:25-31: the call starts; it returns when backups are switched
\* off or backupStopCh is not nil
StartBackupThread(c) ==
    /\ backupPc[c] = "idle"
    /\ backupCalls[c] < MaxStarts
    /\ backupCalls' = [backupCalls EXCEPT ![c] = @ + 1]
    /\ backupPc' = [backupPc EXCEPT ![c] = IF NoBackup \/ backupStopCh # 0
                                            THEN "idle" ELSE "make"]
    /\ UNCHANGED <<NoBackup, backupStopCh, backupThreads>>

\* s3backup.go:32: backupStopCh = make(chan struct{})
makeStopCh(c) ==
    /\ backupPc[c] = "make"
    /\ backupStopCh' = c
    /\ backupPc' = [backupPc EXCEPT ![c] = "go"]
    /\ UNCHANGED <<NoBackup, backupCalls, backupThreads>>

\* s3backup.go:39-50: the go statement, and the return
goBackup(c) ==
    /\ backupPc[c] = "go"
    /\ backupThreads' = backupThreads + 1
    /\ backupPc' = [backupPc EXCEPT ![c] = "idle"]
    /\ UNCHANGED <<NoBackup, backupStopCh, backupCalls>>

NextBackup ==
    \/ \E c \in Callers : StartBackupThread(c) /\ UNCHANGED <<storeVars, fnVars, mediaVars, chatVars>>
    \/ \E c \in Callers : makeStopCh(c) /\ UNCHANGED <<storeVars, fnVars, mediaVars, chatVars>>
    \/ \E c \in Callers : goBackup(c) /\ UNCHANGED <<storeVars, fnVars, mediaVars, chatVars>>

SpecBackup == InitBackup /\ [][NextBackup]_vars

\* C27: however the calls of StartBackupThread interleave, at most one backup
\* goroutine is ever started
C27_AtMostOneBackupGoroutine == backupThreads <= 1

\* a call that starts after another call has assigned backupStopCh returns
\* without starting a goroutine
CallAfterAssignmentStartsNone ==
    [][\A c \in Callers :
          (StartBackupThread(c) /\ backupStopCh # 0) => backupPc'[c] = "idle"]_vars

\* with backups switched off no goroutine is started
NoBackupStartsNone == NoBackup => backupThreads = 0

(***************************************************************************)
(* The kernels of mini_resize_area_u8 on the way to the 9x8 grid.          *)
(***************************************************************************)
\* the image passes the argument checks of mini_dhash_from_raw
ValidRaw(img) ==
    /\ img.width > 0
    /\ img.height > 0
    /\ img.width <= INT_MAX \div 4
    /\ img.stride >= img.width

\* the bytes of a single-channel image row by row, without the padding
PixelsOf(img) ==
    [i \in 1..(img.width * img.height) |->
        RawByte(img, ((i - 1) \div img.width) * img.stride + ((i - 1) % img.width))]

\* C28: for a source of width w and height h resampled to 9x8 the area
\* kernels are selected exactly when w >= 9 and h >= 8 and the bilinear one
\* exactly when w < 9 or h < 8; of the area kernels the block average is
\* selected exactly when 9 divides w and 8 divides h (it is the one kernel
\* that needs no memory, so its calls succeed when malloc fails); a 9x8
\* single-channel source comes out as it went in
C28_KernelSelection ==
    ValidRaw(arg) =>
        LET w == arg.width
            h == arg.height
            path == resize_path(w, h, 9, 8)
            S == [i \in 0..(arg.stride * h - 1) |-> GrayByte(arg, 0, i)]
        IN /\ path \in {"fast", "area"} <=> (w >= 9 /\ h >= 8)
           /\ path = "linear" <=> (w < 9 \/ h < 8)
           /\ path = "fast" <=> (w >= 9 /\ h >= 8 /\ w % 9 = 0 /\ h % 8 = 0)
           /\ (path = "fast" /\ arg.code = "MINI_NO_CHANGE") =>
                 \A i \in 1..Len(out) : out[i].rc = 0
           /\ path # "fast" =>
                 mini_resize_area_u8(S, w, h, arg.stride, 9, 8, FALSE).rc = -1
           /\ (w = 9 /\ h = 8 /\ arg.code = "MINI_NO_CHANGE") =>
                 /\ mini_resize_area_u8(S, w, h, arg.stride, 9, 8, TRUE).dst = PixelsOf(arg)
                 /\ \A i \in 1..Len(out) :
                       out[i].out_hash = mini_pack_dhash_bits(PixelsOf(arg), 9)

\* a 9x8 single-channel gradient has been hashed twice, and its fingerprint
\* is not the all-zero one
C28_Witness ==
    /\ arg.width = 9
    /\ arg.height = 8
    /\ arg.code = "MINI_NO_CHANGE"
    /\ arg.colour = <<>>
    /\ Len(out) = 2
    /\ out[1].rc = 0
    /\ out[1].out_hash # ZeroHash

(***************************************************************************)
(* mini_resize_area_fast_int on one block.  The source is 9 * iscale_x     *)
(* pixels wide; the block of destination pixel (0, 0) holds n pixels of    *)
(* value hi, every other pixel is lo.  Up to MaxScale the float product    *)
(* sum * (1.0f / area) is the exact quotient wherever it is a tie: 1 / area *)
(* is off by less than 2^-25 of its value for the even areas in range.     *)
(***************************************************************************)
MaxScale == 4

Blocks ==
    {b \in [iscale_x : 1..MaxScale, iscale_y : 1..MaxScale, n : 0..(MaxScale * MaxScale),
            lo : {0, 254}, hi : {1, 255}] :
        b.n <= b.iscale_x * b.iscale_y /\ b.lo < b.hi}

\* the source buffer of a block: the rows of the first row of blocks
BlockSource(b) ==
    LET stride == 9 * b.iscale_x
    IN [i \in 0..(stride * b.iscale_y - 1) |->
          LET x == i % stride
              y == i \div stride
          IN IF x < b.iscale_x /\ y * b.iscale_x + x < b.n THEN b.hi ELSE b.lo]

BlockSum(b) == b.n * b.hi + (b.iscale_x * b.iscale_y - b.n) * b.lo

InitBlock ==
    /\ StoreIdle
    /\ MediaIdle
    /\ BackupIdle
    /\ ChatIdle
    /\ arg \in Blocks
    /\ out = NoOut

\* mini_resize_area_fast_int computes destination pixel (dx, 0)
callResizeFastInt(dx) ==
    /\ out = NoOut
    /\ out' = [dx |-> dx,
               pixel |-> mini_resize_area_fast_int(BlockSource(arg), 9 * arg.iscale_x, dx, 0,
                                                   arg.iscale_x, arg.iscale_y)]
    /\ UNCHANGED <<storeVars, mediaVars, backupVars, chatVars, arg>>

NextBlock == \E dx \in {0, 1} : callResizeFastInt(dx)

SpecBlock == InitBlock /\ [][NextBlock]_vars

\* the block sum of the destination pixel that was computed
SumAt(dx) == IF dx = 0 THEN BlockSum(arg) ELSE arg.iscale_x * arg.iscale_y * arg.lo

\* C29 as stated: the output pixel is the block sum plus half the block area,
\* divided by the block area (a shift when the area is a power of two)
C29_Original ==
    out # NoOut =>
        LET area == arg.iscale_x * arg.iscale_y
        IN out.pixel = (SumAt(out.dx) + area \div 2) \div area

\* C29: the output pixel is the block sum divided by the block area, rounded
\* to the nearest integer; a tie goes up for a 2x2 block, computed as
\* (sum + 2) >> 2, and to the even integer for every other block
C29_NearestTiesToEven ==
    out # NoOut =>
        LET area == arg.iscale_x * arg.iscale_y
            sum == SumAt(out.dx)
            diff == out.pixel * area - sum
        IN /\ 2 * diff <= area
           /\ -2 * diff <= area
           /\ (arg.iscale_x = 2 /\ arg.iscale_y = 2) => out.pixel = (sum + 2) \div 4
           /\ (2 * diff = area \/ -2 * diff = area) =>
                 IF arg.iscale_x = 2 /\ arg.iscale_y = 2 THEN diff > 0
                 ELSE out.pixel % 2 = 0

\* a 4x4 block summing to 8 has been averaged: the quotient 0.5 is a tie and
\* the pixel is 0
C29_Witness ==
    /\ out # NoOut
    /\ out.dx = 0
    /\ arg.iscale_x = 4
    /\ arg.iscale_y = 4
    /\ BlockSum(arg) = 8
    /\ out.pixel = 0

(***************************************************************************)
(* mini_resize_area_linear on one axis: the table entry xofs / alpha (or   *)
(* yofs / beta) of one destination index, for the destination sizes 9 and  *)
(* 8 of the grid and every smaller source size.                            *)
(***************************************************************************)
Axes == {a \in [ssize : 1..8, dsize : {8, 9}] : a.ssize < a.dsize}

InitLinear ==
    /\ StoreIdle
    /\ MediaIdle
    /\ BackupIdle
    /\ ChatIdle
    /\ arg \in Axes
    /\ out = NoOut

\* mini_cv.c:222-250: one round of the loop that fills xofs and alpha
callLinearOfs(d) ==
    /\ out = NoOut
    /\ out' = [d |-> d, ofs |-> linear_ofs(arg.ssize, arg.dsize, d)]
    /\ UNCHANGED <<storeVars, mediaVars, backupVars, chatVars, arg>>

NextLinear == \E d \in 0..8 : d < arg.dsize /\ callLinearOfs(d)

SpecLinear == InitLinear /\ [][NextLinear]_vars

\* C30 as stated: the source index is floor((d + 0.5) * scale - 0.5) clamped
\* to 0 .. ssize - 1 and the weight of the next sample is the fractional part
\* of that coordinate (in units of 1 / ONE)
C30_Original ==
    out # NoOut =>
        LET c == (2 * out.d + 1) * arg.ssize - arg.dsize
            s == c \div (2 * arg.dsize)
        IN /\ out.ofs.s = (IF s < 0 THEN 0 ELSE IF s > arg.ssize - 1 THEN arg.ssize - 1 ELSE s)
           /\ 2 * (out.ofs.w1 * 2 * arg.dsize - ONE * (c % (2 * arg.dsize))) <= 2 * arg.dsize
           /\ 2 * (ONE * (c % (2 * arg.dsize)) - out.ofs.w1 * 2 * arg.dsize) <= 2 * arg.dsize

\* C30: with s0 = floor(d * scale), scale = ssize / dsize, the source index
\* is s0 and the fraction is (d + 1) - (s0 + 1) / scale, taken as 0 when it
\* is not positive (it is always below 1); when s0 is the last source pixel
\* or beyond, the index is ssize - 2 and the fraction 1; a source of size 1
\* has index 0 and fraction 0.  The weight of the next sample is the fraction
\* in units of 1 / ONE, rounded to the nearest integer.
C30_FloorOfScaledIndex ==
    out # NoOut =>
        LET ssize == arg.ssize
            dsize == arg.dsize
            s0 == CHOOSE s \in 0..ssize : s * dsize <= out.d * ssize /\ out.d * ssize < (s + 1) * dsize
            f == (out.d + 1) * ssize - (s0 + 1) * dsize      \* the fraction * ssize
            fx == IF f <= 0 THEN 0 ELSE f
        IN /\ f < ssize
           /\ IF ssize = 1 THEN out.ofs.s = 0 /\ out.ofs.w1 = 0
              ELSE IF s0 >= ssize - 1 THEN out.ofs.s = ssize - 2 /\ out.ofs.w1 = ONE
              ELSE /\ out.ofs.s = s0
                   /\ 2 * (out.ofs.w1 * ssize - ONE * fx) <= ssize
                   /\ 2 * (ONE * fx - out.ofs.w1 * ssize) <= ssize

\* destination index 3 of 9 over a source of 3 pixels has been computed: it
\* is source pixel 1 with fraction 0, where the half-pixel coordinate 2/3
\* would give pixel 0 with fraction 2/3
C30_Witness ==
    /\ out # NoOut
    /\ arg.ssize = 3
    /\ arg.dsize = 9
    /\ out.d = 3
    /\ out.ofs.s = 1
    /\ out.ofs.w1 = 0

(***************************************************************************)
(* mini_resize_area_linear on whole pixels: the columns, rows and weights  *)
(* one destination pixel of the 9x8 grid is computed from.  The bytes past *)
(* the end of the source are not the program's: they hold anything.        *)
(***************************************************************************)
\* mini_cv.c:282-300: the columns and rows read and the weights used for
\* destination pixel (dx, dy)
linear_reads(src_w, src_h, dst_w, dst_h, dx, dy) ==
    LET ox == linear_ofs(src_w, dst_w, dx)
        oy == linear_ofs(src_h, dst_h, dy)
    IN [sx0 |-> ox.s, sx1 |-> linear_sx1(ox.s, src_w),
        sy0 |-> oy.s, sy1 |-> IF src_h > 1 THEN oy.s + 1 ELSE oy.s,
        wx0 |-> ONE - ox.w1, wx1 |-> ox.w1,
        wy0 |-> ONE - oy.w1, wy1 |-> oy.w1]

Patterns == {"black", "white", "gradient", "checker"}

\* single-channel sources that take the bilinear path to 9x8
SmallImages ==
    {i \in [width : {1, 2, 3, 8, 9, 18}, height : {1, 2, 7, 8, 16}, pattern : Patterns] :
        i.width < 9 \/ i.height < 8}

PatternByte(pattern, x, y) ==
    CASE pattern = "black" -> 0
      [] pattern = "white" -> 255
      [] pattern = "gradient" -> (40 * x + 3 * y) % 256
      [] OTHER -> IF (x + y) % 2 = 0 THEN 255 ELSE 0

\* the source buffer (stride = width) followed by one row's worth and one
\* byte of foreign memory
SmallSource(i) ==
    [o \in 0..(i.width * (i.height + 1)) |->
        IF o < i.width * i.height
        THEN PatternByte(i.pattern, o % i.width, o \div i.width)
        ELSE JunkByte(1, o)]

InitBilinear ==
    /\ StoreIdle
    /\ MediaIdle
    /\ BackupIdle
    /\ ChatIdle
    /\ arg \in SmallImages
    /\ out = NoOut

\* mini_resize_area_linear computes destination pixel (dx, dy)
callResizeLinear(dx, dy) ==
    /\ out = NoOut
    /\ out' = [reads |-> linear_reads(arg.width, arg.height, 9, 8, dx, dy),
               pixel |-> mini_resize_area_linear(SmallSource(arg), arg.width, arg.height,
                                                 arg.width, 9, 8, dx, dy)]
    /\ UNCHANGED <<storeVars, mediaVars, backupVars, chatVars, arg>>

NextBilinear == \E dx \in 0..8, dy \in 0..7 : callResizeLinear(dx, dy)

SpecBilinear == InitBilinear /\ [][NextBilinear]_vars

\* C31: for every source of width >= 1 and height >= 1 on the bilinear path
\* the two columns read lie in 0 .. width - 1 and the two rows in
\* 0 .. height - 1, the two weights of each axis lie in 0 .. 2048 and sum to
\* 2048, and the output pixel lies in 0 .. 255
C31_BilinearInBounds ==
    out # NoOut =>
        /\ resize_path(arg.width, arg.height, 9, 8) = "linear"
        /\ out.reads.sx0 \in 0..(arg.width - 1)
        /\ out.reads.sx1 \in 0..(arg.width - 1)
        /\ out.reads.sy0 \in 0..(arg.height - 1)
        /\ out.reads.sy1 \in 0..(arg.height - 1)
        /\ out.reads.wx0 \in 0..2048
        /\ out.reads.wx1 \in 0..2048
        /\ out.reads.wx0 + out.reads.wx1 = 2048
        /\ out.reads.wy0 \in 0..2048
        /\ out.reads.wy1 \in 0..2048
        /\ out.reads.wy0 + out.reads.wy1 = 2048
        /\ out.pixel \in 0..255

\* a pixel of a white source one pixel wide has been computed: both columns
\* read are column 0 and the pixel is 255
C31_Witness ==
    /\ out # NoOut
    /\ arg.width = 1
    /\ arg.height = 7
    /\ arg.pattern = "white"
    /\ out.reads.sx0 = 0
    /\ out.reads.sx1 = 0
    /\ out.reads.sy1 = out.reads.sy0 + 1
    /\ out.pixel = 255

(***************************************************************************)
(* mini_cvtcolor_u8 as mini_dhash_from_raw calls it: the gray buffer of an *)
(* image two pixels wide whose pixels all have the colour <<r, g, b, a>>.  *)
(***************************************************************************)
Channel == {0, 1, 127, 128, 254, 255}

PixelImages ==
    {[width |-> 2, height |-> 1, stride |-> PixStride(c, 2), code |-> c, colour |-> rgba] :
        c \in Codes, rgba \in Channel \X Channel \X Channel \X Channel}

InitGray ==
    /\ StoreIdle
    /\ MediaIdle
    /\ BackupIdle
    /\ ChatIdle
    /\ arg \in PixelImages
    /\ out = NoOut

\* mini_cv.c:439-455: gray, the buffer handed to the resampler
callCvtColor(junk) ==
    /\ out = NoOut
    /\ out' = [x \in 1..arg.width |-> GrayByte(arg, junk, x - 1)]
    /\ UNCHANGED <<storeVars, mediaVars, backupVars, chatVars, arg>>

NextGray == \E junk \in {0, 1} : callCvtColor(junk)

SpecGray == InitGray /\ [][NextGray]_vars

\* C32: every RGBA pixel becomes (9798 R + 19235 G + 3735 B + 16384) >> 15,
\* a value in 0 .. 255 that does not depend on the alpha byte and is v when
\* R = G = B = v; the bytes of a single-channel source are taken as they are
C32_Luma ==
    out # NoOut =>
        LET r == arg.colour[1]
            g == arg.colour[2]
            b == arg.colour[3]
        IN \A x \in 1..arg.width :
              IF arg.code = "MINI_RGBA2GRAY"
              THEN /\ out[x] = (9798 * r + 19235 * g + 3735 * b + 16384) \div 32768
                   /\ out[x] \in 0..255
                   /\ (r = g /\ g = b) => out[x] = r
                   /\ \A a \in Channel :
                         GrayByte([arg EXCEPT !.colour[4] = a], 0, x - 1) = out[x]
              ELSE out[x] = RawByte(arg, x - 1)

\* a pixel with red 255, green 128, blue 0 and alpha 0 has been reduced to
\* (9798 * 255 + 19235 * 128 + 16384) >> 15 = 151
C32_Witness ==
    /\ out # NoOut
    /\ arg.code = "MINI_RGBA2GRAY"
    /\ arg.colour = <<255, 128, 0, 0>>
    /\ out[2] = 151

\* the keys of group g that have no sighting in table t and one in table u
NewlySighted(t, u, g) ==
    {k \in RowsOf(u, g) : u[k].count >= 1 /\ (k \notin DOMAIN t \/ t[k].count = 0)}

\* C33: image_count of a group is the number of its rows with count >= 1; a
\* step raises it by the number of keys that go from no row or count 0 to
\* count 1, and by nothing else; a row that the whitelist statement created
\* gets its first count from a committed sighting that finds it off the
\* whitelist and reports PrevCount 0, not Skipped
C33_CountedOnFirstSighting ==
    /\ [](\A g \in Groups :
             GetGroupMarsCount(mars_group_stat, g) =
                Cardinality({k \in RowsOf(mars_info, g) : mars_info[k].count >= 1}))
    /\ [][\A g \in Groups :
             GetGroupMarsCount(mars_group_stat', g) =
                GetGroupMarsCount(mars_group_stat, g)
                   + Cardinality(NewlySighted(mars_info, mars_info', g))]_vars
    /\ [][\A k \in DOMAIN mars_info :
             (mars_info[k].count = 0 /\ mars_info'[k].count # 0) =>
                /\ mars_info[k].in_whitelist = 0
                /\ mars_info'[k].count = 1
                /\ ret'.proc # 0
                /\ <<ret'.groupID, ret'.dhash>> = k
                /\ ret'.res.err = ""
                /\ ~ret'.res.Skipped
                /\ ret'.res.PrevCount = 0]_vars

\* a sighting is about to commit on a row that the whitelist statement
\* created and that was taken off the whitelist again: its transaction holds
\* count 1 and the raised image_count
C33_Witness ==
    \E p \in Procs :
        /\ pc[p] = "commit"
        /\ writer = p
        /\ KeyOf(p) \in DOMAIN mars_info
        /\ mars_info[KeyOf(p)] = [count |-> 0, last_msg_id |-> 0, in_whitelist |-> 0]
        /\ call[p].prevCount = 0
        /\ txInfo[KeyOf(p)].count = 1
        /\ GetGroupMarsCount(txStat, call[p].groupID)
              = GetGroupMarsCount(mars_group_stat, call[p].groupID) + 1

\* main.go:338-343: the result of recordMars makes processSinglePhoto reply
Notifies(res) == res.err = "" /\ ~res.Skipped /\ res.PrevCount > 0

\* the stored fingerprints of group g within the similarity threshold of d
SimilarStored(t, g, d) ==
    {k \in RowsOf(t, g) : hammingDistance(k[2], d).dist <= similarHDThreshold}

\* C34: a sighting whose fingerprint is not, byte for byte, a stored
\* fingerprint of its group is a first sighting, whatever similar
\* fingerprints the group holds: it creates its row with count 1, returns
\* PrevCount 0 and not Skipped, gives no notification, raises the group's
\* image_count by 1 and leaves every other row as it was
C34_ExactMatchOnly ==
    [][\A k \in Keys, m \in MsgIds :
          (sighting(k[1], m, k[2], FALSE) /\ k \notin DOMAIN mars_info) =>
             /\ DOMAIN mars_info' = DOMAIN mars_info \cup {k}
             /\ mars_info'[k] = [count |-> 1, last_msg_id |-> m, in_whitelist |-> 0]
             /\ \A k2 \in DOMAIN mars_info : mars_info'[k2] = mars_info[k2]
             /\ ret'.res.err = ""
             /\ ~ret'.res.Skipped
             /\ ret'.res.PrevCount = 0
             /\ ~Notifies(ret'.res)
             /\ GetGroupMarsCount(mars_group_stat', k[1])
                   = GetGroupMarsCount(mars_group_stat, k[1]) + 1]_vars

\* a first sighting has just been counted in a group that holds another
\* fingerprint one bit away, sighted and on the whitelist
C34_Witness ==
    /\ RetOk
    /\ ~ret.res.Skipped
    /\ ret.res.PrevCount = 0
    /\ \E k \in SimilarStored(mars_info, ret.groupID, ret.dhash) :
          /\ k[2] # ret.dhash
          /\ hammingDistance(k[2], ret.dhash).dist = 1
          /\ mars_info[k].count >= 1
          /\ mars_info[k].in_whitelist = 1

(***************************************************************************)
(* The replies of the photo handlers on a database of an earlier run in    *)
(* which photo A was sighted three times and photo B once before it was    *)
(* put on the whitelist.                                                   *)
(***************************************************************************)
SeenOften ==
    [k \in {<<Chat, HashOf(PhotoA)>>, <<Chat, HashOf(PhotoB)>>} |->
        IF k[2] = HashOf(PhotoA)
        THEN [count |-> 3, last_msg_id |-> 101, in_whitelist |-> 0]
        ELSE [count |-> 1, last_msg_id |-> 102, in_whitelist |-> 1]]

InitNotify ==
    /\ mars_info \in {EmptyTable, SeenOften}
    /\ mars_group_stat = IF mars_info = EmptyTable THEN EmptyTable ELSE Put(EmptyTable, Chat, 2)
    /\ writer = 0
    /\ txInfo = EmptyTable
    /\ txStat = EmptyTable
    /\ pc = [p \in Procs |-> "idle"]
    /\ call = [p \in Procs |-> NoCall]
    /\ ret = NoRet
    /\ nOps = 0
    /\ reported = EmptyTable
    /\ committed = {}
    /\ items = NoItems
    /\ FnIdle
    /\ BackupIdle
    /\ ChatIdle
    /\ MediaIdle

SpecNotify == InitNotify /\ [][NextPhoto]_vars

\* every outcome of the batch is a first sighting or Skipped
AllFirstSeenOrSkipped(unique) ==
    \A k \in DOMAIN unique : unique[k].res.Skipped \/ unique[k].res.PrevCount = 0

\* C35: processSinglePhoto sends a reply exactly when recordMars returned
\* without an error, not Skipped and with PrevCount > 0; the reply answers
\* the message, is built from PrevCount and PrevLastMsgID, which are the count
\* and last_msg_id the row had before the call, and has the whitelist button
\* exactly when PrevCount > 3.  The step that ends a batch sends nothing when
\* every outcome of the batch is a first sighting or Skipped.
C35_NotificationRule ==
    [][/\ \A photo \in SinglePhotos, env \in Envs :
             processSinglePhoto(photo, env) =>
                LET res == seen'.res
                    before == GetMarsInfo(mars_info, Chat, seen'.dhash).info
                    note == [run |-> 0, MessageId |-> 200 + nMsgs,
                             PrevCount |-> before.count,
                             PrevLastMsgID |-> before.last_msg_id,
                             button |-> before.count > 3]
                IN IF res.err = "" /\ ~res.Skipped /\ res.PrevCount > 0
                   THEN /\ note \notin sent
                        /\ sent' = sent \cup {note}
                        /\ res.PrevCount = before.count
                   ELSE sent' = sent
       /\ \A w \in Flushers :
             (handleMediaGroupReply(w) /\ AllFirstSeenOrSkipped(flush[w].unique)) =>
                sent' = sent]_vars

\* the fifth sighting of photo A has been answered with the whitelist button,
\* the fourth without it
C35_Witness ==
    /\ seen.res.err = ""
    /\ seen.res.PrevCount = 4
    /\ \E s \in sent : s.run = 0 /\ s.PrevCount = 4 /\ s.button /\ s.MessageId = seen.msg.MessageId
    /\ \E s \in sent : s.run = 0 /\ s.PrevCount = 3 /\ ~s.button /\ s.PrevLastMsgID = 101

\* a batch whose outcomes are a first sighting or Skipped is about to end
C35_BatchWithoutReply ==
    \E w \in Flushers :
        /\ flush[w].pc = "handle"
        /\ flush[w].i > Len(flush[w].msgs)
        /\ DOMAIN flush[w].unique # {}
        /\ AllFirstSeenOrSkipped(flush[w].unique)

(***************************************************************************)
(* Arrivals for a media group after its buffer was flushed: the burst of   *)
(* nine buffered messages on the database of an earlier run.               *)
(***************************************************************************)
InitLate ==
    /\ mars_info = SeenOnce
    /\ mars_group_stat = Put(EmptyTable, Chat, 2)
    /\ writer = 0
    /\ txInfo = EmptyTable
    /\ txStat = EmptyTable
    /\ pc = [p \in Procs |-> "idle"]
    /\ call = [p \in Procs |-> NoCall]
    /\ ret = NoRet
    /\ nOps = 0
    /\ reported = EmptyTable
    /\ committed = {}
    /\ items = NoItems
    /\ FnIdle
    /\ BackupIdle
    /\ ChatIdle
    /\ fuid_to_dhash = EmptyTable
    /\ mediaGroups = Put(EmptyTable, "album", NineBuffered)
    /\ mediaMu = 0
    /\ timers = [id \in MediaGroupIds |-> 1]
    /\ flush = [w \in Flushers |-> NoFlush]
    /\ nMsgs = 0
    /\ nRuns = 0
    /\ sent = {}
    /\ handed = EmptyTable
    /\ dropped = {}
    /\ seen = NoOutcome

SpecLate == InitLate /\ [][NextBurst]_vars

\* the messages a flush run holds
InBatch(m) ==
    \E w \in Flushers : \E i \in 1..Len(flush[w].msgs) : flush[w].msgs[i].MessageId = m

\* C36: a message that arrives for a media group whose buffer a flush has
\* removed becomes the only message of a new buffer and arms one more flush
\* for that media group; a message dropped at a full buffer is in no buffer
\* and in no batch afterwards, and is never passed to recordMars
C36_LateArrivalStartsNewBuffer ==
    /\ [][\A mg \in MediaGroupIds, photo \in BurstPhotos :
            (enqueueMediaGroup(mg, photo) /\ nRuns > 0 /\ mg \notin DOMAIN mediaGroups) =>
                /\ mediaGroups' = Put(mediaGroups, mg, <<NewMsg(mg, photo)>>)
                /\ timers' = [timers EXCEPT ![mg] = @ + 1]
                /\ dropped' = dropped]_vars
    /\ [](\A m \in dropped :
            ~InBuffer(m) /\ ~InBatch(m) /\ TimesHanded(m) = 0 /\ seen.msg.MessageId # m)

\* the media group was flushed twice and both runs sent a reply: the first
\* took the ten buffered messages, the eleventh was dropped, and the second
\* took only the message that arrived after the first flush
C36_Witness ==
    /\ 201 \in dropped
    /\ TimesHanded(200) = 1
    /\ TimesHanded(202) = 1
    /\ \E s \in sent : s.run = 1
    /\ \E s \in sent : s.run = 2 /\ s.MessageId = 202

\* the sighting or the fingerprint computation of the item failed
ItemFailed(res) == res.err \notin {"", "seen"}

\* the positions the loop of flusher w has passed whose fingerprint is that
\* of photo, among the failed items
FailedCarriers(w, photo) ==
    {j \in flush[w].failed : flush[w].msgs[j].Photo = photo}

\* C37: every step of the loop of handleMediaGroup, failed or not, moves to
\* the next item of the same batch, and the reply step comes only after the
\* last item; a failed item leaves both tables and the outcomes of the run
\* as they were; an item whose fingerprint was computed, has no outcome in
\* this run and was carried by a failed earlier item is passed to recordMars
\* (its outcome is that of recordMars on the tables before the step)
C37_FailureDoesNotStopFlush ==
    [][/\ \A w \in Flushers, env \in Envs :
            handleMediaGroupItem(w, env) =>
                LET f == flush[w]
                    msg == f.msgs[f.i]
                    res == seen'.res
                    r == recordMarsTx(mars_info, mars_group_stat, Chat, msg.MessageId,
                                      seen'.dhash, env = "record")
                IN /\ seen'.msg = msg
                   /\ flush'[w].pc = "handle"
                   /\ flush'[w].msgs = f.msgs
                   /\ flush'[w].i = f.i + 1
                   /\ ItemFailed(res) =>
                         /\ mars_info' = mars_info
                         /\ mars_group_stat' = mars_group_stat
                         /\ flush'[w].unique = f.unique
                         /\ sent' = sent
                   /\ (/\ FailedCarriers(w, msg.Photo) # {}
                       /\ res.err # "hash"
                       /\ seen'.dhash \notin DOMAIN f.unique) =>
                         /\ res = r.res
                         /\ mars_info' = r.info
                         /\ mars_group_stat' = r.stat
       /\ \A w \in Flushers : ReplyStep(w) => flush[w].i = Len(flush[w].msgs) + 1]_vars

\* a run of three items with one photo: the fingerprint of the first could
\* not be computed, the sighting of the second failed, the third was passed
\* to recordMars and raised the count
C37_Witness ==
    \E w \in Flushers :
        /\ flush[w].i = 4
        /\ flush[w].failed = {1, 2}
        /\ FailedCarriers(w, PhotoB) = {1, 2}
        /\ seen.msg = flush[w].msgs[3]
        /\ seen.res.err = ""
        /\ ~seen.res.Skipped
        /\ CountOf(mars_info, seen.dhash) = seen.res.PrevCount + 1
        /\ fuid_to_dhash # EmptyTable

(***************************************************************************)
(* handlePhoto: the user whitelist of the group in front of the photo      *)
(* handlers.                                                               *)
(***************************************************************************)
\* the senders of photo messages; 0 stands for ctx.EffectiveUser == nil
Users == {0, 7, 8}

\* query_mars.sql:30-31 IsUserInWhitelist: SELECT EXISTS (...)
IsUserInWhitelist(t, g, u) == IF <<g, u>> \in t THEN 1 ELSE 0

\* the lookup that reports a user as whitelisted when the query fails
isUserInWhitelist_FailClosed(t, g, u, fail) ==
    IF fail THEN [val |-> TRUE, err |-> "query"]
    ELSE [val |-> IsUserInWhitelist(t, g, u) # 0, err |-> ""]

\* main.go:545-551 isUserInWhitelist: [val, err]
isUserInWhitelist(t, g, u, fail) ==
    IF fail THEN [val |-> FALSE, err |-> "query"]
    ELSE [val |-> IsUserInWhitelist(t, g, u) # 0, err |-> ""]

\* main.go:297-323 handlePhoto for a new photo message of user in the chat;
\* mg is msg.MediaGroupId, fail the failure of the whitelist query.  The
\* message of a whitelisted user takes its message id and nothing else.
handlePhoto(user, mg, photo, env, fail) ==
    IF user # 0 /\ isUserInWhitelist(group_user_in_whitelist, Chat, user, fail).val
    THEN /\ nMsgs < MaxMsgs
         /\ nMsgs' = nMsgs + 1
         /\ seen' = NoOutcome
         /\ UNCHANGED <<storeVars, fnVars, backupVars, chatVars, fuid_to_dhash, mediaGroups,
                        mediaMu, timers, flush, nRuns, sent, handed, dropped>>
    ELSE IF mg # ""
    THEN enqueueMediaGroup(mg, photo)
    ELSE processSinglePhoto(photo, env)

\* main.go:738-755 handleAddUserToWhitelist: the INSERT fails on the primary
\* key when the user is on the whitelist already
handleAddUserToWhitelist(user) ==
    /\ group_user_in_whitelist' = group_user_in_whitelist \cup {<<Chat, user>>}
    /\ seen' = NoOutcome
    /\ UNCHANGED <<storeVars, fnVars, backupVars, exporting, exportTimers, exportPc, exportRet,
                   nExports, fuid_to_dhash, mediaGroups, mediaMu, timers, flush, nMsgs, nRuns,
                   sent, handed, dropped>>

\* main.go:757-768 handleRemoveUserFromWhitelist
handleRemoveUserFromWhitelist(user) ==
    /\ group_user_in_whitelist' = group_user_in_whitelist \ {<<Chat, user>>}
    /\ seen' = NoOutcome
    /\ UNCHANGED <<storeVars, fnVars, backupVars, exporting, exportTimers, exportPc, exportRet,
                   nExports, fuid_to_dhash, mediaGroups, mediaMu, timers, flush, nMsgs, nRuns,
                   sent, handed, dropped>>

\* the photos and failures of the messages handlePhoto receives
UserPhotos == {PhotoB, PhotoEmpty}
UserEnvs == {"ok", "record"}

NextUser ==
    \/ \E user \in Users, mg \in MediaGroupIds \cup {""}, photo \in UserPhotos,
          env \in UserEnvs, fail \in BOOLEAN : handlePhoto(user, mg, photo, env, fail)
    \/ \E user \in Users \ {0} : handleAddUserToWhitelist(user)
    \/ \E user \in Users \ {0} : handleRemoveUserFromWhitelist(user)
    \/ \E mg \in MediaGroupIds, w \in Flushers : flushLock(mg, w)
    \/ \E w \in Flushers : flushDelete(w)
    \/ \E w \in Flushers : handleMediaGroupItem(w, "ok")
    \/ \E w \in Flushers : handleMediaGroupReply(w)

SpecUser == InitMedia /\ [][NextUser]_vars

\* the step receives a photo message
PhotoArrives == nMsgs' = nMsgs + 1

\* C38: a photo message of a user who is on the group's user whitelist,
\* when the lookup succeeds, changes neither table, the fingerprint cache,
\* the buffers, the timers nor the replies; when the lookup fails the message
\* is handled exactly as handlePhoto handles that of a user who is not on
\* the whitelist
C38_WhitelistedUserIgnored ==
    [][\A user \in Users \ {0}, mg \in MediaGroupIds \cup {""}, photo \in UserPhotos,
          env \in UserEnvs :
            /\ (handlePhoto(user, mg, photo, env, FALSE)
                  /\ <<Chat, user>> \in group_user_in_whitelist) =>
                    /\ UNCHANGED <<mars_info, mars_group_stat, fuid_to_dhash, mediaGroups,
                                   timers, flush, sent, handed, dropped,
                                   group_user_in_whitelist>>
                    /\ seen' = NoOutcome
            /\ handlePhoto(user, mg, photo, env, TRUE) =>
                    IF mg # "" THEN enqueueMediaGroup(mg, photo)
                    ELSE processSinglePhoto(photo, env)]_vars

\* user 7 is on the whitelist and the only photo message received so far
\* left no trace: no row, no cache entry, no buffer, no timer, no outcome
C38_Witness ==
    /\ group_user_in_whitelist = {<<Chat, 7>>}
    /\ nMsgs = 1
    /\ mars_info = EmptyTable
    /\ fuid_to_dhash = EmptyTable
    /\ mediaGroups = EmptyTable
    /\ \A mg \in MediaGroupIds : timers[mg] = 0
    /\ nRuns = 0
    /\ seen = NoOutcome

(***************************************************************************)
(* handleExportData: the export of a chat's records, its running mark and  *)
(* its cooldown.  The sections of the handler under App.exportMu touch     *)
(* nothing but App.exporting and are one step each.                        *)
(***************************************************************************)
ExportFrame == UNCHANGED <<storeVars, fnVars, mediaVars, backupVars, group_user_in_whitelist>>

ExportReturn(e, g, result) == exportRet' = [proc |-> e, chat |-> g, result |-> result]

\* handleExportData admitting a request while the chat's export is running
handleExportData_IgnoreRunning(e, g) ==
    /\ exportPc[e].pc = "idle"
    /\ nExports < MaxExports
    /\ nExports' = nExports + 1
    /\ IF g \in DOMAIN exporting /\ ~exporting[g].running
       THEN /\ ExportReturn(e, g, "cooldown")
            /\ UNCHANGED <<exporting, exportPc>>
       ELSE /\ exporting' = Put(exporting, g, [running |-> TRUE])
            /\ exportPc' = [exportPc EXCEPT ![e] = [pc |-> "build", chat |-> g]]
            /\ exportRet' = NoExportRet
    /\ UNCHANGED exportTimers
    /\ ExportFrame

\* main.go:865-885 handleExportData up to the Unlock after the chat was
\* marked: an export request for chat g handled by goroutine e
handleExportData(e, g) ==
    /\ exportPc[e].pc = "idle"
    /\ nExports < MaxExports
    /\ nExports' = nExports + 1
    /\ IF g \in DOMAIN exporting
       THEN /\ ExportReturn(e, g, IF exporting[g].running THEN "running" ELSE "cooldown")
            /\ UNCHANGED <<exporting, exportPc>>
       ELSE /\ exporting' = Put(exporting, g, [running |-> TRUE])
            /\ exportPc' = [exportPc EXCEPT ![e] = [pc |-> "build", chat |-> g]]
            /\ exportRet' = NoExportRet
    /\ UNCHANGED exportTimers
    /\ ExportFrame

\* main.go:887-893 a.exportChatData(chatID) and the return on its error
exportChatData(e, fail) ==
    /\ exportPc[e].pc = "build"
    /\ IF fail
       THEN /\ exporting' = Remove(exporting, exportPc[e].chat)
            /\ exportPc' = [exportPc EXCEPT ![e] = NoExport]
            /\ ExportReturn(e, exportPc[e].chat, "build failed")
       ELSE /\ exportPc' = [exportPc EXCEPT ![e].pc = "open"]
            /\ exportRet' = NoExportRet
            /\ UNCHANGED exporting
    /\ UNCHANGED <<exportTimers, nExports>>
    /\ ExportFrame

\* os.Open with the removal of the chat's state on its error
openExportFile_Cleanup(e, fail) ==
    /\ exportPc[e].pc = "open"
    /\ IF fail
       THEN /\ exporting' = Remove(exporting, exportPc[e].chat)
            /\ exportPc' = [exportPc EXCEPT ![e] = NoExport]
            /\ ExportReturn(e, exportPc[e].chat, "open failed")
       ELSE /\ exportPc' = [exportPc EXCEPT ![e].pc = "send"]
            /\ exportRet' = NoExportRet
            /\ UNCHANGED exporting
    /\ UNCHANGED <<exportTimers, nExports>>
    /\ ExportFrame

\* main.go:896-899 os.Open(filePath): on its error the handler returns and
\* leaves a.exporting as it is
openExportFile(e, fail) ==
    /\ exportPc[e].pc = "open"
    /\ IF fail
       THEN /\ exportPc' = [exportPc EXCEPT ![e] = NoExport]
            /\ ExportReturn(e, exportPc[e].chat, "open failed")
       ELSE /\ exportPc' = [exportPc EXCEPT ![e].pc = "send"]
            /\ exportRet' = NoExportRet
    /\ UNCHANGED <<exporting, exportTimers, nExports>>
    /\ ExportFrame

\* main.go:902-909 b.SendDocument and the return on its error
sendExportDocument(e, fail) ==
    /\ exportPc[e].pc = "send"
    /\ IF fail
       THEN /\ exporting' = Remove(exporting, exportPc[e].chat)
            /\ exportPc' = [exportPc EXCEPT ![e] = NoExport]
            /\ ExportReturn(e, exportPc[e].chat, "send failed")
       ELSE /\ exportPc' = [exportPc EXCEPT ![e].pc = "sent"]
            /\ exportRet' = NoExportRet
            /\ UNCHANGED exporting
    /\ UNCHANGED <<exportTimers, nExports>>
    /\ ExportFrame

\* main.go:911-919: state.running = false and the cooldown timer
startExportCooldown(e) ==
    /\ exportPc[e].pc = "sent"
    /\ exporting' = [g \in DOMAIN exporting |->
                        IF g = exportPc[e].chat THEN [running |-> FALSE] ELSE exporting[g]]
    /\ exportTimers' = [exportTimers EXCEPT ![exportPc[e].chat] = @ + 1]
    /\ exportPc' = [exportPc EXCEPT ![e] = NoExport]
    /\ ExportReturn(e, exportPc[e].chat, "exported")
    /\ UNCHANGED nExports
    /\ ExportFrame

\* main.go:913-917: the function of time.AfterFunc(exportCooldown, ...)
exportCooldownFires(g) ==
    /\ exportTimers[g] > 0
    /\ exportTimers' = [exportTimers EXCEPT ![g] = @ - 1]
    /\ exporting' = Remove(exporting, g)
    /\ exportRet' = NoExportRet
    /\ UNCHANGED <<exportPc, nExports>>
    /\ ExportFrame

InitExport ==
    /\ StoreIdle
    /\ FnIdle
    /\ MediaIdle
    /\ BackupIdle
    /\ ChatIdle

NextExport ==
    \/ \E e \in Exporters, g \in Groups : handleExportData(e, g)
    \/ \E e \in Exporters, fail \in BOOLEAN : exportChatData(e, fail)
    \/ \E e \in Exporters, fail \in BOOLEAN : openExportFile(e, fail)
    \/ \E e \in Exporters, fail \in BOOLEAN : sendExportDocument(e, fail)
    \/ \E e \in Exporters : startExportCooldown(e)
    \/ \E g \in Groups : exportCooldownFires(g)

SpecExport == InitExport /\ [][NextExport]_vars

\* idle, running or cooldown: the export state of chat g
ExportStateOf(t, g) ==
    IF g \notin DOMAIN t THEN "idle" ELSE IF t[g].running THEN "running" ELSE "cooldown"

\* the goroutines that are exporting chat g
ExportsOf(g) == {e \in Exporters : exportPc[e].pc # "idle" /\ exportPc[e].chat = g}

\* the steps the export state of a chat can take
ExportCycle ==
    {<<"idle", "running">>, <<"running", "cooldown">>, <<"cooldown", "idle">>}

\* the results of a handleExportData call that ended in an error after the
\* chat was marked
ExportFailures == {"build failed", "open failed", "send failed"}

\* C39: for every interleaving of the handleExportData goroutines at most one
\* of them is exporting a chat, and only while the chat is marked running; a
\* request for a chat that is marked (running or in its cooldown) returns
\* with the refusal for that state and changes nothing; the cooldown timer
\* is pending only during the cooldown and its firing makes the chat idle;
\* the state of a chat moves only idle -> running -> cooldown -> idle, or
\* from running back to idle when the export failed
C39_ExportCycle ==
    /\ [](\A g \in Groups :
            /\ Cardinality(ExportsOf(g)) <= 1
            /\ ExportsOf(g) # {} => ExportStateOf(exporting, g) = "running"
            /\ exportTimers[g] = IF ExportStateOf(exporting, g) = "cooldown" THEN 1 ELSE 0)
    /\ [][\A e \in Exporters, g \in Groups :
            (handleExportData(e, g) /\ g \in DOMAIN exporting) =>
                /\ exportRet' = [proc |-> e, chat |-> g, result |-> ExportStateOf(exporting, g)]
                /\ UNCHANGED <<exporting, exportPc, exportTimers>>]_vars
    /\ [][\A g \in Groups :
            exportCooldownFires(g) => ExportStateOf(exporting', g) = "idle"]_vars
    /\ [][\A g \in Groups :
            LET from == ExportStateOf(exporting, g)
                to == ExportStateOf(exporting', g)
            IN \/ from = to
               \/ /\ <<from, to>> \in ExportCycle
                  /\ to = "cooldown" => exportRet' = [proc |-> exportRet'.proc, chat |-> g,
                                                      result |-> "exported"]
                  /\ to = "idle" => exportTimers'[g] = exportTimers[g] - 1
               \/ /\ <<from, to>> = <<"running", "idle">>
                  /\ exportRet'.chat = g
                  /\ exportRet'.result \in ExportFailures]_vars

\* goroutine 2 was refused a request for chat 1 while goroutine 1 is sending
\* the export of that chat, after an earlier export of chat 2 whose cooldown
\* is running
C39_Witness ==
    /\ exportRet = [proc |-> 2, chat |-> 1, result |-> "running"]
    /\ exportPc[1] = [pc |-> "send", chat |-> 1]
    /\ ExportStateOf(exporting, 2) = "cooldown"

\* a request was refused during the cooldown of its chat
C39_RefusedInCooldown ==
    /\ exportRet.result = "cooldown"
    /\ exportTimers[exportRet.chat] = 1

\* C40: a handleExportData call that fails after it marked the chat, whatever
\* the step that failed, leaves the chat without export state, so that a
\* chat is marked running only while a goroutine is exporting it
C40_FailedExportClearsState ==
    /\ [][exportRet'.result \in ExportFailures =>
            ExportStateOf(exporting', exportRet'.chat) = "idle"]_vars
    /\ [](\A g \in Groups :
            ExportStateOf(exporting, g) = "running" => ExportsOf(g) # {})

\* the failures of exportChatData and of SendDocument remove the chat's
\* export state
BuildAndSendFailuresClear ==
    [][exportRet'.result \in {"build failed", "send failed"} =>
          ExportStateOf(exporting', exportRet'.chat) = "idle"]_vars

\* chat 1 is marked running, no goroutine is exporting it, and a request for
\* it has just been refused
C40_StuckRunning ==
    /\ ExportStateOf(exporting, 1) = "running"
    /\ ExportsOf(1) = {}
    /\ exportRet = [proc |-> 1, chat |-> 1, result |-> "running"]

====
